---- MODULE Spec2Model ----
(***************************************************************************)
(* A model of the TGA rapid-antigen-test review reader of                  *)
(* covid_self_tests.report:                                                *)
(*                                                                         *)
(*   Spec      PdfTableToRatReviewEntries.build, the fold of the row       *)
(*             stream into review entries (pdf_table.py).                  *)
(*   SpecEval  Report._eval_review_batches, the choice of the batch that   *)
(*             is reported for an entry (tga_rats.py).                     *)
(*   SpecRead  PdfTableDocument.read, the loop over the pages and lines of *)
(*             a document with the header detection and the row slicing of *)
(*             PdfTableHeader, ending in build (pdf_table.py).             *)
(*   SpecHeader  one PdfTableHeader and the calls of add_header_line and   *)
(*             get_row made on it, in any order and on any line of a page  *)
(*             (pdf_table.py).                                             *)
(*   SpecProp  one ProductInfo and the calls of set_prop that              *)
(*             Report._combine_data makes on it (models.py, tga_rats.py).  *)
(*                                                                         *)
(* Python values are modelled as follows.  A str is a sequence of          *)
(* one-character strings, so that slicing, searching, splitting and        *)
(* stripping are computed and not assumed.  None, the booleans that _norm  *)
(* returns for "yes" and "no", and a key that a dict does not hold, are    *)
(* four values that no str equals.  A dict is a function over its possible *)
(* keys whose absent keys map to Missing.                                  *)
(***************************************************************************)
EXTENDS Integers, Sequences, FiniteSets, TLC

(***************************************************************************)
(* Bounds of the model.                                                    *)
(***************************************************************************)
\* The longest row stream handed to build.
MaxRows == 4

(***************************************************************************)
(* Python values.                                                          *)
(***************************************************************************)
None == <<"None">>
PyTrue == <<"bool", "True">>
PyFalse == <<"bool", "False">>
Missing == <<"Missing">>

\* bool(v) of a value that is None, a bool or a str.
Truthy(v) == v \notin {None, PyFalse, <<>>}

\* str(v) of a bool or a str.
Str(v) ==
    IF v = PyTrue THEN <<"T", "r", "u", "e">>
    ELSE IF v = PyFalse THEN <<"F", "a", "l", "s", "e">>
    ELSE v

\* The characters matched by \s and removed by str.strip().
WhiteSpace == {" ", "\t"}

\* c.isdigit()
IsDigit(c) == c \in {"0", "1", "2", "3", "4", "5", "6", "7", "8", "9"}

DigitChars == <<"0", "1", "2", "3", "4", "5", "6", "7", "8", "9">>

\* ord(c) of a digit character.
Ord(c) == 47 + (CHOOSE i \in 1..Len(DigitChars) : DigitChars[i] = c)

\* What re.compile(r"\s+").sub(" ", value) leaves of the character at i: a
\* run of whitespace becomes one space, written at the run's first character.
SubSpacesAt(value, i) ==
    IF value[i] \notin WhiteSpace THEN <<value[i]>>
    ELSE IF i > 1 /\ value[i - 1] \in WhiteSpace THEN <<>>
    ELSE <<" ">>

\* The substitution over value[lo..hi], by halves.
RECURSIVE SubSpacesIn(_, _, _)
SubSpacesIn(value, lo, hi) ==
    IF lo > hi THEN <<>>
    ELSE IF lo = hi THEN SubSpacesAt(value, lo)
    ELSE LET mid == (lo + hi) \div 2
         IN  SubSpacesIn(value, lo, mid) \o SubSpacesIn(value, mid + 1, hi)

\* re.compile(r"\s+").sub(" ", value)
SubSpaces(value) == SubSpacesIn(value, 1, Len(value))

\* s.strip(): s without its leading and trailing whitespace.
Strip(s) ==
    LET inked == {i \in 1..Len(s) : s[i] \notin WhiteSpace}
    IN  IF inked = {} THEN <<>>
        ELSE LET first == CHOOSE i \in inked : \A j \in inked : i <= j
                 last == CHOOSE i \in inked : \A j \in inked : j <= i
             IN  SubSeq(s, first, last)

\* s.startswith(prefix)
StartsWith(s, prefix) ==
    Len(prefix) <= Len(s) /\ SubSeq(s, 1, Len(prefix)) = prefix

\* sub in s
Contains(s, sub) ==
    \E i \in 0..(Len(s) - Len(sub)) : SubSeq(s, i + 1, i + Len(sub)) = sub

\* s.count(c) for a one-character c
Count(s, c) == Cardinality({i \in 1..Len(s) : s[i] = c})

\* s.split(c) for a one-character c: always at least one piece.
RECURSIVE Split(_, _)
Split(s, c) ==
    IF \A i \in 1..Len(s) : s[i] # c THEN <<s>>
    ELSE LET i == CHOOSE j \in 1..Len(s) :
                      s[j] = c /\ \A k \in 1..(j - 1) : s[k] # c
         IN  <<SubSeq(s, 1, i - 1)>> \o Split(SubSeq(s, i + 1, Len(s)), c)

(***************************************************************************)
(* PdfTableDocument: the legend sentences and the indicator legend.        *)
(***************************************************************************)
KeyLineYes ==
    <<"C", "o", "m", "p", "l", "i", "a", "n", "t", " ", "w", "i", "t", "h", " ", "t",
      "h", "e", " ", "W", "H", "O", " ", "g", "u", "i", "d", "e", "l", "i", "n", "e",
      "s", " ", "(", "L", "O", "D", " ", "w", "i", "t", "h", "i", "n", " ", "r", "a",
      "n", "g", "e", " ", "1", "0", "0", "-", "1", "0", "0", "0", " ", "T", "C", "I",
      "D", "5", "0", "/", "m", "L", ")", " ", "d", "u", "r", "i", "n", "g", " ", "T",
      "G", "A", " ", "v", "a", "l", "i", "d", "a", "t", "i", "o", "n">>

KeyLineNo ==
    <<"N", "o", "n", "-", "c", "o", "m", "p", "l", "i", "a", "n", "t", " ", "w", "i",
      "t", "h", " ", "t", "h", "e", " ", "W", "H", "O", " ", "g", "u", "i", "d", "e",
      "l", "i", "n", "e", "s", " ", "(", "L", "O", "D", " ", "d", "o", "e", "s", " ",
      "n", "o", "t", " ", "f", "a", "l", "l", " ", "w", "i", "t", "h", "i", "n", " ",
      "t", "h", "e", " ", "r", "a", "n", "g", "e", " ", "1", "0", "0", "-", "1", "0",
      "0", "0", " ", "T", "C", "I", "D", "5", "0", "/", "m", "L", ")", " ", "d", "u",
      "r", "i", "n", "g", " ", "T", "G", "A", " ", "v", "a", "l", "i", "d", "a", "t",
      "i", "o", "n">>

KeyLineMultipleProducts ==
    <<"W", "h", "e", "r", "e", " ", "m", "u", "l", "t", "i", "p", "l", "e", " ", "R",
      "A", "T", "s", " ", "a", "r", "e", " ", "i", "n", "c", "l", "u", "d", "e", "d",
      " ", "u", "n", "d", "e", "r", " ", "t", "h", "e", " ", "o", "n", "e", " ", "(",
      "1", ")", " ", "A", "R", "T", "G", " ", "n", "u", "m", "b", "e", "r", " ", "a",
      "n", "d", " ", "h", "a", "v", "e", " ", "t", "h", "e", " ", "s", "a", "m", "e",
      " ", "p", "r", "o", "d", "u", "c", "t", " ", "c", "o", "m", "p", "o", "s", "i",
      "t", "i", "o", "n", ",", " ", "t", "h", "e", "y", " ", "h", "a", "v", "e">>

KeyLineTestsProteinStudies ==
    <<"I", "n", " ", "m", "a", "n", "u", "f", "a", "c", "t", "u", "r", "e", "r", " ",
      "p", "r", "o", "v", "i", "d", "e", "d", " ", "e", "v", "i", "d", "e", "n", "c",
      "e", ",", " ", "v", "a", "r", "i", "a", "n", "t", "s", " ", "t", "h", "a", "t",
      " ", "h", "a", "v", "e", " ", "o", "n", "l", "y", " ", "b", "e", "e", "n", " ",
      "t", "e", "s", "t", "e", "d", " ", "w", "i", "t", "h", " ", "r", "e", "c", "o",
      "m", "b", "i", "n", "a", "n", "t", " ", "p", "r", "o", "t", "e", "i", "n", " ",
      "s", "t", "u", "d", "i", "e", "s", ".">>

\* The keys of _key_lines, in the order the dict is iterated.
KeyOrder == <<"yes", "no", "multiple-products", "tests-protein-studies">>

IndicatorKeys == {KeyOrder[i] : i \in 1..Len(KeyOrder)}

KeyLines ==
    [key \in IndicatorKeys |->
        CASE key = "yes" -> KeyLineYes
          [] key = "no" -> KeyLineNo
          [] key = "multiple-products" -> KeyLineMultipleProducts
          [] OTHER -> KeyLineTestsProteinStudies]

\* The keys, by position in KeyOrder, whose sentence the line contains.
KeyMatches(line) ==
    {i \in 1..Len(KeyOrder) : Contains(line, KeyLines[KeyOrder[i]])}

\* _key_indicator(line): the first key whose sentence the line contains, with
\* the line's first character; None when no sentence is contained.
KeyIndicator(line) ==
    IF KeyMatches(line) = {} THEN None
    ELSE LET i == CHOOSE j \in KeyMatches(line) :
                      \A k \in KeyMatches(line) : j <= k
         IN  [key |-> KeyOrder[i], symbol |-> <<line[1]>>]

\* indicators = {}
NoIndicators == [key \in IndicatorKeys |-> Missing]

\* indicators[indicators_raw[0]] = indicators_raw[1]
SetIndicator(ind, indicators_raw) ==
    [ind EXCEPT ![indicators_raw.key] = indicators_raw.symbol]

(***************************************************************************)
(* PdfTableToRatReviewEntries: normalisation and the accumulators.         *)
(***************************************************************************)
\* _norm(value)
Norm(value) ==
    LET result == Strip(SubSpaces(value))
    IN  IF result = <<"y", "e", "s">> THEN PyTrue
        ELSE IF result = <<"n", "o">> THEN PyFalse
        ELSE IF result = <<>> THEN None
        ELSE result

\* _norm_name(value, multiple_name_indicator)
NormName(value, multiple_name_indicator) ==
    LET with_spaces == SubSpaces(value)
        result == Strip(with_spaces)
    IN  IF /\ result # <<>>
           /\ with_spaces # <<>>
           /\ StartsWith(with_spaces, multiple_name_indicator)
        THEN [is_new_name |-> TRUE, name |-> result]
        ELSE IF result = <<>>
             THEN [is_new_name |-> FALSE, name |-> None]
             ELSE [is_new_name |-> FALSE, name |-> result]

EntryKeys == {"artg", "sponsor", "manufacturer", "artg_comment"}

\* The sensitivity keys of a batch dict, in the order build inserts them.
SensitivityKeys == <<"wild", "delta", "omicron", "quality">>

BatchKeys == {"batch"} \cup {SensitivityKeys[i] : i \in 1..Len(SensitivityKeys)}

\* current_entry = {}
EmptyEntry == [key \in EntryKeys |-> Missing]

\* current_batches.append({})
EmptyBatch == [key \in BatchKeys |-> Missing]

\* bool(container) of a dict
DictTruthy(container) == \E key \in DOMAIN container : container[key] # Missing

\* container.get(key)
Get(container, key) ==
    IF container[key] = Missing THEN None ELSE container[key]

\* A variant of _dict_add that creates the key only for a value that is not
\* None, so that a field no row set stays absent.
DictAddSkipsNone(container, key, value) ==
    LET initial == IF container[key] = Missing THEN <<>> ELSE container[key]
    IN  IF value = None THEN container
        ELSE [container EXCEPT ![key] = Strip(initial \o <<" ">> \o Str(value))]

\* _dict_add(container, key, value)
DictAdd(container, key, value) ==
    LET initial == IF container[key] = Missing THEN <<>> ELSE container[key]
        added == IF value # None
                 THEN initial \o <<" ">> \o Str(value)
                 ELSE initial
    IN  [container EXCEPT ![key] = Strip(added)]

\* _list_add(container, value), for a non-empty container and a value that
\* is not True.
ListAdd(container, value) ==
    LET last == container[Len(container)]
        text == IF Truthy(value) THEN value ELSE <<>>
    IN  [container EXCEPT ![Len(container)] = Strip(last \o <<" ">> \o text)]

(***************************************************************************)
(* PdfTableToRatReviewEntries._build_entry.                                *)
(***************************************************************************)
\* One RatReviewManufacturerEvidence(group, value) per comma-separated value.
RECURSIVE EvidenceRecords(_, _)
EvidenceRecords(group, values) ==
    IF values = <<>> THEN <<>>
    ELSE <<[group |-> group, name |-> Head(values)]>>
             \o EvidenceRecords(group, Tail(values))

\* The loop over the evidence slots from slot i on, with current_group as
\* left by the slots before i.  The slots hold no item with more than one
\* colon (see EvidenceRaises).
RECURSIVE ManufacturerEvidenceFrom(_, _, _)
ManufacturerEvidenceFrom(evidence, i, current_group) ==
    IF i > Len(evidence) THEN <<>>
    ELSE LET item == evidence[i]
         IN  IF item = <<>>
             THEN ManufacturerEvidenceFrom(evidence, i + 1, current_group)
             ELSE IF Count(item, ":") = 1
                  THEN LET parts == Split(item, ":")
                       IN  EvidenceRecords(parts[1], Split(parts[2], ","))
                               \o ManufacturerEvidenceFrom(evidence, i + 1, parts[1])
                  ELSE EvidenceRecords(current_group, Split(item, ","))
                           \o ManufacturerEvidenceFrom(evidence, i + 1, current_group)

\* manufacturer_evidence, with current_group = None before the first slot.
ManufacturerEvidence(evidence) == ManufacturerEvidenceFrom(evidence, 1, None)

\* A variant of the colon check that never raises.
EvidenceRaisesNever(evidence) == FALSE

\* raise ValueError(f"{entry}: {item}"): some non-empty slot has more than
\* one colon.
EvidenceRaises(evidence) ==
    \E i \in 1..Len(evidence) : evidence[i] # <<>> /\ Count(evidence[i], ":") > 1

\* A variant of the comparison that tests the cell against the legend
\* sentences instead of the symbols of their lines.
AnalyticalSensitivityBySentence(key, value, indicators) ==
    IF value = KeyLines["yes"]
    THEN [name |-> key, compliant |-> TRUE, comment |-> None]
    ELSE IF value = KeyLines["no"]
         THEN [name |-> key, compliant |-> FALSE, comment |-> None]
         ELSE [name |-> key, compliant |-> FALSE, comment |-> value]

\* RatReviewAnalyticalSensitivity(name=key, compliant=..., comment=...) for
\* one value of a batch dict.
AnalyticalSensitivity(key, value, indicators) ==
    IF value = indicators["yes"]
    THEN [name |-> key, compliant |-> TRUE, comment |-> None]
    ELSE IF value = indicators["no"]
         THEN [name |-> key, compliant |-> FALSE, comment |-> None]
         ELSE [name |-> key, compliant |-> FALSE, comment |-> value]

\* tests: one sensitivity per key of the batch dict other than "batch".
RECURSIVE Tests(_, _, _)
Tests(item, i, indicators) ==
    IF i > Len(SensitivityKeys) THEN <<>>
    ELSE LET key == SensitivityKeys[i]
         IN  (IF item[key] = Missing THEN <<>>
              ELSE <<AnalyticalSensitivity(key, item[key], indicators)>>)
                 \o Tests(item, i + 1, indicators)

\* batch_items
RECURSIVE BatchItems(_, _)
BatchItems(batches, indicators) ==
    IF batches = <<>> THEN <<>>
    ELSE <<[batch |-> Get(Head(batches), "batch"),
            analytical_sensitivities |-> Tests(Head(batches), 1, indicators)]>>
             \o BatchItems(Tail(batches), indicators)

\* product_names
RECURSIVE ProductNames(_)
ProductNames(names) ==
    IF names = <<>> THEN <<>>
    ELSE (IF Head(names) # <<>> /\ Strip(Head(names)) # <<>>
          THEN <<Head(names)>>
          ELSE <<>>) \o ProductNames(Tail(names))

\* The exception _build_entry raises, or "none".
BuildEntryError(evidence, indicators) ==
    IF EvidenceRaises(evidence) THEN "ValueError"
    ELSE IF indicators["yes"] = Missing \/ indicators["no"] = Missing
         THEN "KeyError"
         ELSE "none"

\* The RatReviewEntry _build_entry returns when it raises nothing.
BuildEntry(entry, names, batches, evidence, indicators) ==
    [artg |-> Get(entry, "artg"),
     comment |-> Get(entry, "artg_comment"),
     sponsor |-> Get(entry, "sponsor"),
     manufacturer |-> Get(entry, "manufacturer"),
     product_names |-> ProductNames(names),
     batches |-> BatchItems(batches, indicators),
     manufacturer_evidence |-> ManufacturerEvidence(evidence)]

(***************************************************************************)
(* The inputs of build: legends as read leaves them, and rows as get_row   *)
(* slices them.                                                            *)
(***************************************************************************)
LegendLineYes == <<"Y", " ">> \o KeyLineYes
LegendLineNo == <<"N", " ">> \o KeyLineNo
LegendLineMultipleProducts == <<"*", " ">> \o KeyLineMultipleProducts
LegendLineTestsProteinStudies == <<"^", " ">> \o KeyLineTestsProteinStudies

\* The indicators read holds after the legend lines of a document, each line
\* stored as lines 61-63 store it.
RECURSIVE ReadIndicators(_, _)
ReadIndicators(ind, lines) ==
    IF lines = <<>> THEN ind
    ELSE ReadIndicators(
             IF KeyMatches(Head(lines)) # {}
             THEN SetIndicator(ind, KeyIndicator(Head(lines)))
             ELSE ind,
             Tail(lines))

\* The legends of a document with all four legend lines, of one without the
\* non-compliant line and of one without the multiple-products line.
Legends ==
    {ReadIndicators(NoIndicators, doc) :
        doc \in {<<LegendLineYes, LegendLineNo, LegendLineMultipleProducts,
                    LegendLineTestsProteinStudies>>,
                  <<LegendLineYes, LegendLineMultipleProducts>>,
                  <<LegendLineYes, LegendLineNo>>}}

\* A row as get_row returns it: a value for each of the ten column names.
Row(a, s, m, n, b, w, d, o, q, p) ==
    [artg |-> a, sponsor |-> s, manufacturer |-> m, name |-> n, batch |-> b,
     wild |-> w, delta |-> d, omicron |-> o, quality |-> q, provided |-> p]

\* An identifier row that carries every field; its quality cell holds the
\* compliant legend sentence itself.
RowFirst ==
    Row(<<"1", "2">>, <<"s">>, <<"m">>, <<"n">>, <<"b", "1">>, <<"Y">>, <<"N">>,
        <<"x">>, KeyLineYes,
        <<"V", "a", "r", "i", "a", "n", "t", ":", " ", "A", ",", " ", "B">>)

\* An identifier row, padded, with a marked name and no evidence.
RowSecond ==
    Row(<<" ", "3", "4", " ">>, <<"t">>, <<>>, <<"*", " ", "k", " ", " ", "2">>,
        <<"b", "2">>, <<"Y">>, <<"Y">>, <<"Y">>, <<" ", "Y">>, <<>>)

\* A continuation row: a name and an evidence cell without a colon.
RowContinued ==
    Row(<<>>, <<>>, <<>>, <<"k">>, <<" ", " ">>, <<>>, <<>>, <<>>, <<>>, <<"C">>)

\* A row whose identifier cell is commentary, with a batch of its own.
RowWithdrawn ==
    Row(<<"A", "R", "T", "G", "1", "2", "3", "4", "5", "(", "w", "i", "t", "h",
          "d", "r", "a", "w", "n", ")">>,
        <<"u">>, <<"m">>, <<"w">>, <<"b", "3">>, <<"N">>, <<"N">>, <<"N">>,
        <<"N">>, <<"W", "i", "l", "d", ":", " ", "D">>)

\* A continuation row whose identifier cell is commentary.
RowCancelled ==
    Row(<<"(", "c", "a", "n", "c", "e", "l", "l", "e", "d", ")">>, <<>>, <<>>,
        <<>>, <<>>, <<>>, <<>>, <<>>, <<>>, <<>>)

\* An identifier row with an empty batch cell.
RowBare ==
    Row(<<"5", "6">>, <<"v">>, <<"m">>, <<"n">>, <<>>, <<>>, <<>>, <<>>, <<>>,
        <<>>)

\* A batch row whose evidence cell has two colons and whose sponsor cell is
\* the token "yes".
RowColons ==
    Row(<<>>, <<"y", "e", "s">>, <<>>, <<>>, <<"b", "4">>, <<"Y">>, <<"x">>,
        <<>>, <<>>, <<"a", ":", "b", ":", "c">>)

\* The rows above, and a continuation row whose name cell has a blank
\* before the multiple-products marker.
Rows ==
    {RowFirst, RowSecond, RowContinued, RowWithdrawn, RowCancelled, RowBare,
     RowColons,
     Row(<<>>, <<>>, <<>>, <<" ", "*", " ", "j">>, <<>>, <<>>, <<>>, <<>>,
         <<>>, <<>>)}

(***************************************************************************)
(* Text matching used by PdfTableDocument.read and PdfTableHeader.         *)
(* Offsets into a str are Python's: the first character is at offset 0.    *)
(***************************************************************************)
\* s[start:stop], where a negative offset counts from the end of s.
PySlice(s, start, stop) ==
    LET clip(i) == IF i < 0 THEN (IF i + Len(s) < 0 THEN 0 ELSE i + Len(s))
                   ELSE IF i > Len(s) THEN Len(s) ELSE i
    IN  IF clip(start) < clip(stop)
        THEN SubSeq(s, clip(start) + 1, clip(stop))
        ELSE <<>>

\* s[start:]
PySliceFrom(s, start) == PySlice(s, start, Len(s))

\* s.find(sub, start) for 0 <= start: the lowest offset of sub in s at or
\* after start, or -1; the empty str is found at start itself.
\* `sub in s[start:]` is Find(s, sub, start) # -1 for start <= len(s), and
\* s.index(sub, start) is Find(s, sub, start) when sub is found.
Find(s, sub, start) ==
    IF sub = <<>> THEN (IF start <= Len(s) THEN start ELSE -1)
    ELSE LET found == {i \in start..(Len(s) - Len(sub)) :
                          \A k \in 1..Len(sub) : s[i + k] = sub[k]}
         IN  IF found = {} THEN -1
             ELSE CHOOSE i \in found : \A j \in found : i <= j

\* The position after the longest run, from position i of s, of characters
\* c with (c \in chars) = inside: what a greedy \s+, \d+ or \S+ consumes
\* when what follows it in the pattern cannot start with such a character.
RunEnd(s, i, chars, inside) ==
    CHOOSE j \in i..(Len(s) + 1) :
        /\ \A k \in i..(j - 1) : (s[k] \in chars) = inside
        /\ j = Len(s) + 1 \/ (s[j] \in chars) # inside

\* The pieces of a pattern: a literal text, or a non-empty run.
Lit(text) == [text |-> text, chars |-> {}, inside |-> TRUE]

Run(chars, inside) == [text |-> <<>>, chars |-> chars, inside |-> inside]

DigitSet == {DigitChars[i] : i \in 1..Len(DigitChars)}

\* The position after `piece` matched at position i of s, or 0 when it does
\* not match there.
PieceEnd(s, i, piece) ==
    IF piece.text # <<>>
    THEN IF /\ i + Len(piece.text) - 1 <= Len(s)
            /\ SubSeq(s, i, i + Len(piece.text) - 1) = piece.text
         THEN i + Len(piece.text)
         ELSE 0
    ELSE IF RunEnd(s, i, piece.chars, piece.inside) > i
         THEN RunEnd(s, i, piece.chars, piece.inside)
         ELSE 0

\* The match of a sequence of pieces from position i of s: the positions at
\* which the pieces start followed by the position after the last one, or
\* <<>> when the pieces do not match.
RECURSIVE MatchPieces(_, _, _)
MatchPieces(s, i, pieces) ==
    IF pieces = <<>> THEN <<i>>
    ELSE LET j == PieceEnd(s, i, Head(pieces))
         IN  IF j = 0 THEN <<>>
             ELSE LET rest == MatchPieces(s, j, Tail(pieces))
                  IN  IF rest = <<>> THEN <<>> ELSE <<i>> \o rest

\* r"^Results\s+as\s+at\s+(?P<date>\d+\s+\S+\s+\d+)", the part of
\* result_date_pattern before ".*?http.*$".
ResultDatePieces ==
    <<Lit(<<"R", "e", "s", "u", "l", "t", "s">>), Run(WhiteSpace, TRUE),
      Lit(<<"a", "s">>), Run(WhiteSpace, TRUE),
      Lit(<<"a", "t">>), Run(WhiteSpace, TRUE),
      Run(DigitSet, TRUE), Run(WhiteSpace, TRUE), Run(WhiteSpace, FALSE),
      Run(WhiteSpace, TRUE), Run(DigitSet, TRUE)>>

\* result_date_pattern.fullmatch(s): the group "date" of the match, which
\* starts at the seventh piece, or <<>> when s does not match (the group of
\* a match is never empty).
ResultDateMatch(s) ==
    LET m == MatchPieces(s, 1, ResultDatePieces)
    IN  IF m = <<>> THEN <<>>
        ELSE IF Find(s, <<"h", "t", "t", "p">>, m[Len(m)] - 1) = -1 THEN <<>>
        ELSE SubSeq(s, m[7], m[Len(m)] - 1)

\* r"^Page\s+\d+\s+of\s+\d+$"
PageOfPieces ==
    <<Lit(<<"P", "a", "g", "e">>), Run(WhiteSpace, TRUE), Run(DigitSet, TRUE),
      Run(WhiteSpace, TRUE), Lit(<<"o", "f">>), Run(WhiteSpace, TRUE),
      Run(DigitSet, TRUE)>>

\* page_of_pattern.fullmatch(s) is a match.
PageOfMatch(s) ==
    LET m == MatchPieces(s, 1, PageOfPieces)
    IN  m # <<>> /\ m[Len(m)] = Len(s) + 1

(***************************************************************************)
(* datetime.strptime(date, "%d %B %Y").                                    *)
(***************************************************************************)
UpperCase ==
    <<"A", "B", "C", "D", "E", "F", "G", "H", "I", "J", "K", "L", "M", "N", "O",
      "P", "Q", "R", "S", "T", "U", "V", "W", "X", "Y", "Z">>

LowerCase ==
    <<"a", "b", "c", "d", "e", "f", "g", "h", "i", "j", "k", "l", "m", "n", "o",
      "p", "q", "r", "s", "t", "u", "v", "w", "x", "y", "z">>

\* s.lower()
Lower(s) ==
    [i \in 1..Len(s) |->
        IF \E k \in 1..Len(UpperCase) : UpperCase[k] = s[i]
        THEN LowerCase[CHOOSE k \in 1..Len(UpperCase) : UpperCase[k] = s[i]]
        ELSE s[i]]

\* The month names %B matches, whatever their case.
MonthNames ==
    <<<<"j", "a", "n", "u", "a", "r", "y">>,
      <<"f", "e", "b", "r", "u", "a", "r", "y">>,
      <<"m", "a", "r", "c", "h">>,
      <<"a", "p", "r", "i", "l">>,
      <<"m", "a", "y">>,
      <<"j", "u", "n", "e">>,
      <<"j", "u", "l", "y">>,
      <<"a", "u", "g", "u", "s", "t">>,
      <<"s", "e", "p", "t", "e", "m", "b", "e", "r">>,
      <<"o", "c", "t", "o", "b", "e", "r">>,
      <<"n", "o", "v", "e", "m", "b", "e", "r">>,
      <<"d", "e", "c", "e", "m", "b", "e", "r">>>>

\* int(digits) of a run of digits.
RECURSIVE ToInt(_)
ToInt(digits) ==
    IF digits = <<>> THEN 0
    ELSE 10 * ToInt(SubSeq(digits, 1, Len(digits) - 1))
             + (Ord(digits[Len(digits)]) - Ord("0"))

\* The number of days of a month of a year.
DaysIn(year, month) ==
    IF month = 2
    THEN (IF year % 4 = 0 /\ (year % 100 # 0 \/ year % 400 = 0)
          THEN 29 ELSE 28)
    ELSE IF month \in {4, 6, 9, 11} THEN 30
    ELSE 31

\* The pieces of a group "date": \d+\s+\S+\s+\d+.
DatePieces ==
    <<Run(DigitSet, TRUE), Run(WhiteSpace, TRUE), Run(WhiteSpace, FALSE),
      Run(WhiteSpace, TRUE), Run(DigitSet, TRUE)>>

\* strptime's checks on the day, the month and the year of a group "date":
\* %d takes a day of one or two digits from 1 to 31, %B a month name, %Y
\* four digits, a blank of the format any run of whitespace, nothing may
\* remain, and the date must exist.  The value is a datetime at midnight.
StrptimeFields(day, month, year) ==
    IF \/ Len(day) > 2
       \/ ToInt(day) \notin 1..31
       \/ \A k \in 1..Len(MonthNames) : MonthNames[k] # Lower(month)
       \/ Len(year) # 4
       \/ ToInt(year) < 1
    THEN [error |-> "ValueError", value |-> None]
    ELSE LET k == CHOOSE n \in 1..Len(MonthNames) : MonthNames[n] = Lower(month)
         IN  IF ToInt(day) > DaysIn(ToInt(year), k)
             THEN [error |-> "ValueError", value |-> None]
             ELSE [error |-> "none",
                   value |-> <<"datetime", ToInt(year), k, ToInt(day)>>]

\* datetime.strptime(date, "%d %B %Y") for a group "date" of
\* result_date_pattern: the exception raised, or the datetime.
Strptime(date) ==
    LET m == MatchPieces(date, 1, DatePieces)
    IN  StrptimeFields(SubSeq(date, m[1], m[2] - 1),
                       SubSeq(date, m[3], m[4] - 1),
                       SubSeq(date, m[5], m[6] - 1))

(***************************************************************************)
(* PdfTableHeader.                                                         *)
(***************************************************************************)
\* _raw_columns
RawColumns ==
    LET tga == <<"T", "G", "A">>
        testing == <<"t", "e", "s", "t", "i", "n", "g">>
        analytical == <<"a", "n", "a", "l", "y", "t", "i", "c", "a", "l">>
        sensitivity == <<"s", "e", "n", "s", "i", "t", "i", "v", "i", "t", "y">>
        manufacturer ==
            <<"M", "a", "n", "u", "f", "a", "c", "t", "u", "r", "e", "r">>
    IN  <<[name |-> "artg", align |-> "left",
           columns |-> <<(<<"A", "R", "T", "G">>)>>],
          [name |-> "sponsor", align |-> "left",
           columns |-> <<(<<"S", "p", "o", "n", "s", "o", "r">>)>>],
          [name |-> "manufacturer", align |-> "left",
           columns |-> <<manufacturer>>],
          [name |-> "name", align |-> "left",
           columns |->
               <<(<<"T", "e", "s", "t", " ", "K", "i", "t", " ", "n", "a",
                    "m", "e">>)>>],
          [name |-> "batch", align |-> "middle",
           columns |->
               <<tga \o <<" ">> \o testing, <<>>,
                 <<"B", "a", "t", "c", "h", " ", "n", "u", "m", "b", "e",
                   "r">> >>],
          [name |-> "wild", align |-> "middle",
           columns |->
               <<tga, testing, <<>>,
                 <<"W", "i", "l", "d", " ", "t", "y", "p", "e">>,
                 analytical, sensitivity>>],
          [name |-> "delta", align |-> "middle",
           columns |->
               <<tga, testing, <<>>, <<"D", "e", "l", "t", "a">>, analytical,
                 sensitivity>>],
          [name |-> "omicron", align |-> "middle",
           columns |->
               <<tga, testing, <<>>, <<"O", "m", "i", "c", "r", "o", "n">>,
                 analytical, sensitivity>>],
          [name |-> "quality", align |-> "middle",
           columns |->
               <<tga, testing, <<>>, <<"D", "e", "v", "i", "c", "e">>,
                 <<"q", "u", "a", "l", "i", "t", "y">> >>],
          [name |-> "provided", align |-> "left",
           columns |->
               <<manufacturer,
                 <<"p", "r", "o", "v", "i", "d", "e", "d", " ", "e", "v",
                   "i", "d", "e", "n", "c", "e">> >>]>>

\* _col_sep
ColSep == <<" ", " ">>

\* self._pdf_header_cols = len(self._raw_columns)
PdfHeaderCols == Len(RawColumns)

\* self._pdf_header_rows = max([len(h.get("columns")) for h in self._raw_columns])
PdfHeaderRows ==
    CHOOSE n \in {Len(RawColumns[i].columns) : i \in 1..Len(RawColumns)} :
        \A i \in 1..Len(RawColumns) : Len(RawColumns[i].columns) <= n

\* _build: _pdf_header_lines, the template.  Line `col` holds for each
\* column `row` its fragment of that rank, "" when it has none.
PdfHeaderLines ==
    [col \in 1..PdfHeaderRows |->
        [row \in 1..PdfHeaderCols |->
            IF Len(RawColumns[row].columns) >= col
            THEN RawColumns[row].columns[col]
            ELSE <<>>]]

\* The ranks of the template and the columns, numbered from 0 as in the code.
HeaderRanks == 0..(PdfHeaderRows - 1)

HeaderItems == 0..(PdfHeaderCols - 1)

\* self._actual = {}: a rank maps to its recorded match, a list of
\* {"start_index", "end_index", "item"} that is never empty, and a rank that
\* is not a key of the dict maps to <<>>.  The key "header" of a recorded
\* fragment, its text, is read nowhere and is left out.
NoActual == [headers_index \in HeaderRanks |-> <<>>]

\* is_complete: len(self._actual) == self._pdf_header_rows
IsComplete(actual) ==
    Cardinality({headers_index \in HeaderRanks : actual[headers_index] # <<>>})
        = PdfHeaderRows

\* The inner loop of add_header_line (lines 248-266) over the fragments of
\* one template line, from the fragment header_index on: current_index as
\* the loop leaves it, and result, which is <<>> when a fragment was not
\* found (line 252).
RECURSIVE MatchHeaders(_, _, _, _, _)
MatchHeaders(line, headers, header_index, current_index, result) ==
    IF header_index >= Len(headers)
    THEN [current_index |-> current_index, result |-> result]
    ELSE LET header == headers[header_index + 1]
             start_index == Find(line, header, current_index)
             end_index == start_index + Len(header)
         IN  IF start_index = -1
             THEN [current_index |-> current_index, result |-> <<>>]
             ELSE IF header = <<>>
                  THEN MatchHeaders(line, headers, header_index + 1,
                                    current_index, result)
                  ELSE MatchHeaders(line, headers, header_index + 1, end_index,
                                    Append(result,
                                           [start_index |-> start_index,
                                            end_index |-> end_index,
                                            item |-> header_index]))

\* The outer loop of add_header_line (lines 247-273) from the template line
\* headers_index on.  current_index is not reset between template lines.
\* Line 273 is not reachable: a result that is not empty returns at line 269.
RECURSIVE AddHeaderLineFrom(_, _, _)
AddHeaderLineFrom(line, headers_index, current_index) ==
    IF headers_index >= PdfHeaderRows
    THEN [is_header |-> FALSE, headers_index |-> 0, result |-> <<>>]
    ELSE LET m == MatchHeaders(line, PdfHeaderLines[headers_index + 1], 0,
                               current_index, <<>>)
         IN  IF m.result # <<>>
             THEN [is_header |-> TRUE, headers_index |-> headers_index,
                   result |-> m.result]
             ELSE AddHeaderLineFrom(line, headers_index + 1, m.current_index)

\* A variant without the early return of lines 242-243: a complete header
\* goes on matching.
AddHeaderLineAlways(actual, line) ==
    LET m == AddHeaderLineFrom(line, 0, 0)
    IN  IF m.is_header
        THEN [is_header |-> TRUE,
              actual |-> [actual EXCEPT ![m.headers_index] = m.result]]
        ELSE [is_header |-> FALSE, actual |-> actual]

\* add_header_line(line): the returned bool and _actual after the call.
AddHeaderLine(actual, line) ==
    IF IsComplete(actual) THEN [is_header |-> FALSE, actual |-> actual]
    ELSE LET m == AddHeaderLineFrom(line, 0, 0)
         IN  IF m.is_header
             THEN [is_header |-> TRUE,
                   actual |-> [actual EXCEPT ![m.headers_index] = m.result]]
             ELSE [is_header |-> FALSE, actual |-> actual]

\* The recorded fragments of column header_index, over all ranks.
Fragments(actual, header_index) ==
    {f \in UNION {{actual[r][k] : k \in 1..Len(actual[r])} : r \in HeaderRanks} :
        f.item = header_index}

\* A variant that keeps the offsets of the first recorded fragment of a
\* column, without lines 158-161.
InitialFirstFragment(actual) ==
    [header_index \in HeaderItems |->
        LET found == Fragments(actual, header_index)
            first == CHOOSE f \in found :
                         \A g \in found : f.start_index <= g.start_index
        IN  [name |-> RawColumns[header_index + 1].name,
             start |-> first.start_index, end |-> first.end_index]]

\* Lines 145-162, for a complete header: initial, in which a column starts
\* at the lowest start and ends at the highest end of its fragments.
Initial(actual) ==
    [header_index \in HeaderItems |->
        LET found == Fragments(actual, header_index)
        IN  [name |-> RawColumns[header_index + 1].name,
             start |-> CHOOSE a \in {f.start_index : f \in found} :
                           \A f \in found : a <= f.start_index,
             end |-> CHOOSE b \in {f.end_index : f \in found} :
                         \A f \in found : f.end_index <= b]]

\* A variant that moves the end of a column before the next column whatever
\* the alignment of the next column is.
HeaderIndexAnyAlign(initial, index) ==
    LET has_next == index + 1 < Len(RawColumns)
        start_index == IF index > 0 THEN initial[index].start ELSE 0
        end_index == IF ~has_next THEN -1
                     ELSE initial[index + 1].start - Len(ColSep)
    IN  [name |-> initial[index].name, start |-> start_index,
         end |-> end_index, align |-> RawColumns[index + 1].align]

\* Lines 169-235: result[index], without the key "info" that only a message
\* shows.
HeaderIndex(initial, index) ==
    LET has_next == index + 1 < Len(RawColumns)
        next_align == IF has_next THEN RawColumns[index + 2].align ELSE "none"
        start_index == IF index > 0 THEN initial[index].start ELSE 0
        end_index == IF ~has_next THEN -1
                     ELSE IF next_align = "left"
                          THEN initial[index + 1].start - Len(ColSep)
                          ELSE initial[index].end
    IN  [name |-> initial[index].name, start |-> start_index,
         end |-> end_index, align |-> RawColumns[index + 1].align]

\* Line 236: start_index < 0 or (start_index >= end_index >= 0)
HeaderIndexRaises(item) ==
    item.start < 0 \/ (item.start >= item.end /\ item.end >= 0)

\* header_indexes raises ValueError (line 237), for a complete header.
HeaderIndexesRaises(actual) ==
    LET initial == Initial(actual)
    IN  \E index \in HeaderItems :
            HeaderIndexRaises(HeaderIndex(initial, index))

\* header_indexes, for a complete header on which it does not raise.
HeaderIndexes(actual) ==
    LET initial == Initial(actual)
    IN  [index \in HeaderItems |-> HeaderIndex(initial, index)]

\* A variant that takes nothing but the separator itself before a column.
ConfirmOnlySeparator(line, start_index) ==
    PySlice(line, start_index - Len(ColSep), start_index) = ColSep

\* Lines 293-296: confirm
Confirm(line, start_index) ==
    LET confirm_value == PySlice(line, start_index - Len(ColSep), start_index)
    IN  Strip(confirm_value) = <<>> \/ confirm_value = ColSep

\* get_row raises ValueError (line 298).
GetRowRaises(data, line) ==
    \E index \in HeaderItems :
        /\ data[index].align = "left"
        /\ index > 0
        /\ ~Confirm(line, data[index].start)

\* A variant that runs the loop of lines 309-316 once at most.
ExtendedOnce(line, value, end_index, extra) ==
    LET extra_value == PySlice(line, end_index + Len(ColSep) * extra,
                               end_index + Len(ColSep) * (extra + 1))
    IN  IF Strip(extra_value) = <<>> THEN value ELSE value \o extra_value

\* Lines 309-316: value with the text to its right, two characters at a
\* time, up to the first two that are blank or past the end of the line.
RECURSIVE Extended(_, _, _, _)
Extended(line, value, end_index, extra) ==
    LET extra_value == PySlice(line, end_index + Len(ColSep) * extra,
                               end_index + Len(ColSep) * (extra + 1))
    IN  IF Strip(extra_value) = <<>> THEN value
        ELSE Extended(line, value \o extra_value, end_index, extra + 1)

\* A variant without lines 318-319: the last column is sliced and extended
\* like the others.
CellValueToEnd(line, item, index) ==
    LET value == IF item.name = "quality"
                 THEN PySlice(line, item.start - 3, item.end)
                 ELSE PySlice(line, item.start, item.end)
    IN  IF value # <<>> /\ value[Len(value)] \notin WhiteSpace
        THEN Extended(line, value, item.end, 0)
        ELSE value

\* Lines 290-319: the value of the column `index`.  The last column is the
\* rest of the line whatever the lines before line 318 computed.
CellValue(line, item, index) ==
    IF index + 1 = PdfHeaderCols THEN PySliceFrom(line, item.start)
    ELSE LET value == IF item.name = "quality"
                      THEN PySlice(line, item.start - 3, item.end)
                      ELSE PySlice(line, item.start, item.end)
         IN  IF value # <<>> /\ value[Len(value)] \notin WhiteSpace
             THEN Extended(line, value, item.end, 0)
             ELSE value

\* get_row(line) when it does not raise, with item["page"] (line 74) set.
GetRow(data, line, page) ==
    [name \in {data[index].name : index \in HeaderItems} \cup {"page"} |->
        IF name = "page" THEN page
        ELSE LET index == CHOOSE i \in HeaderItems : data[i].name = name
             IN  CellValue(line, data[index], index)]

(***************************************************************************)
(* PdfTableDocument.read.                                                  *)
(***************************************************************************)
\* A variant of the guard that parses and stores the date of every
\* results-date line.
ResultDateUnsetAlways(date) == TRUE

\* Line 51: not result_date
ResultDateUnset(date) == ~Truthy(date)

\* read's locals before the loop over the pages (lines 32-40).
ReadLocals ==
    [error |-> "none", result_date |-> None, indicators |-> NoIndicators,
     headers |-> <<>>, data |-> <<>>]

\* Lines 50-55: a line that result_date_pattern matches, with its group.
ReadResultDate(st, date) ==
    IF ~ResultDateUnset(st.result_date) THEN st
    ELSE IF Strptime(date).error # "none"
         THEN [st EXCEPT !.error = Strptime(date).error]
         ELSE [st EXCEPT !.result_date = Strptime(date).value]

\* A variant in which the last complete header of the pages so far slices
\* the lines of a page whose own header is not complete.
ReadTableLineCarried(st, line, page_index, added) ==
    LET complete == {p \in 1..(page_index + 1) : IsComplete(st.headers[p])}
        last == CHOOSE p \in complete : \A q \in complete : q <= p
    IN  IF added.is_header
        THEN [st EXCEPT !.headers[page_index + 1] = added.actual]
        ELSE IF complete = {} THEN st
        ELSE IF GetRowRaises(HeaderIndexes(st.headers[last]), line)
             THEN [st EXCEPT !.error = "ValueError"]
        ELSE [st EXCEPT !.data =
                  Append(@, GetRow(HeaderIndexes(st.headers[last]), line,
                                   page_index + 1))]

\* Lines 66-76: a line offered to the header of its page and, when that
\* header is complete and does not take it, sliced into a row.
ReadTableLine(st, line, page_index, added) ==
    IF added.is_header
    THEN [st EXCEPT !.headers[page_index + 1] = added.actual]
    ELSE IF ~IsComplete(st.headers[page_index + 1]) THEN st
    ELSE IF HeaderIndexesRaises(st.headers[page_index + 1])
         THEN [st EXCEPT !.error = "ValueError"]
    ELSE IF GetRowRaises(HeaderIndexes(st.headers[page_index + 1]), line)
         THEN [st EXCEPT !.error = "ValueError"]
    ELSE [st EXCEPT !.data =
              Append(@, GetRow(HeaderIndexes(st.headers[page_index + 1]),
                               line, page_index + 1))]

\* One iteration of `for line in lines` (lines 45-76) on the locals st.  An
\* exception leaves read: the locals are lost, and are left as they were.
ReadLineStep(st, line, page_index) ==
    IF line = <<>> \/ Strip(line) = <<>> THEN st
    ELSE IF ResultDateMatch(Strip(line)) # <<>>
         THEN ReadResultDate(st, ResultDateMatch(Strip(line)))
    ELSE IF PageOfMatch(Strip(line)) THEN st
    ELSE IF KeyMatches(line) # {}
         THEN [st EXCEPT !.indicators = SetIndicator(@, KeyIndicator(line))]
    ELSE ReadTableLine(st, line, page_index,
                       AddHeaderLine(st.headers[page_index + 1], line))

\* n blanks.
Spaces(n) == [i \in 1..n |-> " "]

\* A line of whitespace.
BlankLine == Spaces(2)

\* Results-date lines: an indented one; one with two blanks in a row, a
\* padded day and a month in lower case; and one whose month lacks its day.
DateLineMarch ==
    <<" ", "R", "e", "s", "u", "l", "t", "s", " ", "a", "s", " ", "a", "t", " ", "1",
      " ", "M", "a", "r", "c", "h", " ", "2", "0", "2", "2", " ", "-", " ", "h", "t",
      "t", "p", "s", ":", "/", "/", "t", "g", "a">>

DateLineMay ==
    <<"R", "e", "s", "u", "l", "t", "s", " ", " ", "a", "s", " ", "a", "t", " ", "0",
      "2", " ", "m", "a", "y", " ", "2", "0", "2", "4", " ", "h", "t", "t", "p">>

DateLineApril ==
    <<"R", "e", "s", "u", "l", "t", "s", " ", "a", "s", " ", "a", "t", " ", "3", "1",
      " ", "A", "p", "r", "i", "l", " ", "2", "0", "2", "2", " ", "h", "t", "t", "p">>

\* A page footer.
PageOfLine ==
    <<"P", "a", "g", "e", " ", "1", " ", "o", "f", " ", "2">>

\* A second line with the compliant sentence, under another symbol.
LegendLineYesAgain == <<"Z", " ">> \o KeyLineYes

\* The cells put on a line from the left, each cell that is not empty at
\* its offset, with blanks up to it.
RECURSIVE Placed(_, _, _)
Placed(line, offsets, cells) ==
    IF cells = <<>> THEN line
    ELSE Placed(IF Head(cells) = <<>> THEN line
                ELSE line \o Spaces(Head(offsets) - Len(line)) \o Head(cells),
                Tail(offsets), Tail(cells))

\* The offsets of the fragments of the six header lines of a page: a fragment
\* of a column aligned left starts where the column does, one of a column
\* aligned in the middle is centred over it.
HeaderStarts ==
    <<<<0, 6, 15, 29, 44, 61, 74, 87, 100, 108>>,
      <<0, 6, 15, 29, 50, 59, 72, 85, 98, 108>>,
      <<0, 6, 15, 29, 44, 62, 75, 88, 101, 108>>,
      <<0, 6, 15, 29, 50, 58, 73, 85, 98, 108>>,
      <<0, 6, 15, 29, 50, 57, 70, 83, 98, 108>>,
      <<0, 6, 15, 29, 50, 57, 70, 83, 101, 108>>>>

\* The six header lines of a page.
HeaderLines ==
    [col \in 1..PdfHeaderRows |->
        Placed(<<>>, HeaderStarts[col], PdfHeaderLines[col])]

\* The offsets of the cells of a table line under those header lines.
DataStarts == <<0, 6, 15, 29, 49, 62, 75, 88, 101, 108>>

\* Two table lines, each an identifier row, and one whose identifier runs
\* into the separator before the next column.
DataLineFirst ==
    Placed(<<>>, DataStarts,
           <<<<"1", "2">>, <<"s">>, <<"m">>, <<"n">>, <<"b", "1">>, <<"Y">>, <<"N">>, <<"Y">>, <<"Y">>, <<"W", "i", "l", "d", ":", " ", "A">>>>)

DataLineSecond ==
    Placed(<<>>, DataStarts,
           <<<<"3", "4">>, <<"t">>, <<"m">>, <<"k">>, <<"b", "2">>, <<"Y">>, <<"Y">>, <<"N">>, <<"Y">>, <<>>>>)

DataLineWide ==
    Placed(<<>>, DataStarts,
           <<<<"1", "2", "3", "4", "5">>, <<"s">>, <<"m">>, <<"n">>, <<"b", "1">>, <<"Y">>, <<"N">>, <<"Y">>, <<"Y">>, <<>>>>)

\* The results-date lines that open a page: none, one, two with different
\* dates, one with a date that does not exist, and that one after another.
DatePreambles ==
    {<<>>, <<DateLineMarch>>, <<DateLineMarch, DateLineMay>>,
     <<DateLineApril>>, <<DateLineMay, DateLineApril>>}

\* The six header lines; and the first five, which leave a header incomplete.
HeaderBlocks == {HeaderLines, SubSeq(HeaderLines, 1, Len(HeaderLines) - 1)}

DataBlocks ==
    {<<>>, <<DataLineFirst, DataLineSecond>>, <<DataLineFirst, DataLineWide>>}

\* The legend lines that close a page: the three that build needs, those
\* with the compliant sentence once more under another symbol, and a legend
\* without the multiple-products line.
LegendBlocks ==
    {<<LegendLineYes, LegendLineNo, LegendLineMultipleProducts>>,
     <<LegendLineYes, LegendLineNo, LegendLineMultipleProducts,
       LegendLineYesAgain>>,
     <<LegendLineYes, LegendLineNo>>}

FirstPages ==
    {<<BlankLine>> \o dates \o header \o rows \o legend \o <<PageOfLine>> :
        dates \in DatePreambles, header \in HeaderBlocks, rows \in DataBlocks,
        legend \in LegendBlocks}

\* A later page that has a results-date line of its own: one without a
\* header, and one with a header, a table line and a legend line.
LaterPages ==
    {<<DateLineMay, DataLineSecond>>,
     <<DateLineMay>> \o HeaderLines \o <<DataLineSecond, LegendLineYesAgain>>}

\* PdfTableHeader.__init__ (lines 130-137): _actual is empty.  With _actual a
\* header keeps the last call made on it: the method, its argument line, the
\* local `data` of get_row (line 276), what the call returned, and whether it
\* raised.
NewHeader ==
    [actual |-> NoActual, called |-> "__init__", line |-> <<>>,
     data |-> None, returned |-> None, error |-> "none"]

\* The lines a page offers to a header.  The six header lines; the first two
\* once more without a blank between their fragments, and the fourth moved
\* three columns to the right; a line with the only fragment of the third
\* template line followed by the first fragment of the first, and one with
\* four times the fragment that the fifth template line has three times,
\* the first fragment of the first template line after the first of them;
\* table lines, of which one has an identifier that runs into the separator,
\* one a tab before the sponsor, one a sponsor that runs up to the
\* manufacturer, one that ends within the name, and one with a name that
\* runs past the header of its column up to the batch number.
TableLines ==
    LET artg == PdfHeaderLines[1][1]
        analytical == PdfHeaderLines[5][6]
        batch_number == PdfHeaderLines[3][5]
        tight ==
            <<Placed(<<>>, <<0, 4, 11, 23, 36, 47, 50, 53, 56, 59>>,
                     PdfHeaderLines[1]),
              Placed(<<>>, <<0, 0, 0, 0, 0, 0, 7, 14, 21, 28>>,
                     PdfHeaderLines[2])>>
        cells(a, s) ==
            <<a, s, <<"m">>, <<"n">>, <<"b", "1">>, <<"Y">>, <<"N">>, <<"Y">>,
              <<"Y">>, <<"W", "i", "l", "d", ":", " ", "A">>>>
    IN  {HeaderLines[col] : col \in 1..PdfHeaderRows}
            \cup {tight[1], tight[2], Spaces(3) \o HeaderLines[4]}
            \cup {batch_number \o <<" ">> \o artg,
                  analytical \o <<" ">> \o artg \o <<" ">> \o analytical
                      \o <<" ">> \o analytical \o <<" ">> \o analytical
                      \o <<" ">> \o PdfHeaderLines[5][9]}
            \cup {DataLineFirst, DataLineWide,
                  Placed(<<>>, <<0, 5, 6>>, <<(<<"1", "2">>), <<"\t">>, <<"s">>>>),
                  Placed(<<>>, DataStarts,
                         cells(<<"1", "2">>,
                               <<"s", "p", "o", "n", "s", "o", "r", "s", "!">>)),
                  Placed(<<>>, <<0, 6, 15, 29>>,
                         <<(<<"7">>), <<"s">>, <<"m">>, <<"n", "a">>>>),
                  Placed(<<>>, DataStarts,
                         <<(<<"1", "2">>), <<"s">>, <<"m">>,
                           <<"A", "n", "t", "i", "g", "e", "n", " ", "n", "a",
                             "s", "a", "l", " ", "t", "e", "s", "t">>,
                           <<"b", "1">>, <<"Y">>, <<"N">>, <<"Y">>, <<"Y">>,
                           <<"W", "i", "l", "d">>>>)}

\* The documents read is given: text.split("\f") of each is its pages, and
\* page.splitlines() of a page its lines.  The last ones have one page, with
\* the six header lines, one more line and the legend.
Documents ==
    {<<first>> : first \in FirstPages}
        \cup {<<first, later>> : first \in FirstPages, later \in LaterPages}
        \cup {<<HeaderLines \o <<line>>
                   \o <<LegendLineYes, LegendLineNo,
                        LegendLineMultipleProducts>>>> : line \in TableLines}

(***************************************************************************)
(* The state.  Each specification below runs one operation of the program  *)
(* and leaves the variables of the others at their initial values.         *)
(***************************************************************************)
VARIABLES
    \* PdfTableToRatReviewEntries.build
    indicators,        \* the indicator legend: read's local, build's argument
    data,              \* build's argument: the rows the loop has taken so far
    pc,                \* "start", "loop", "done" (returned) or "error" (raised)
    error,             \* the exception raised, "none" when none was
    entries,           \* entries; the returned list once pc = "done"
    current_entry,
    current_names,
    current_batches,
    current_evidence,
    \* Report._eval_review_batches
    item_batches,      \* the argument batches
    eval_pc,           \* "call", "returned" or "raised"
    review_result,     \* the returned dict, a set of <<name, value>> pairs
    \* PdfTableDocument.read
    document,          \* the pages of the file, each the list of its lines
    read_pc,           \* "loop", "done" (returned) or "error" (raised)
    page_index,        \* the page the loop is in, -1 before the first
    line_index,        \* the number of lines of that page already taken
    result_date,       \* None or the datetime of a results-date line
    headers,           \* the _actual of the PdfTableHeader of each page so far
    \* PdfTableHeader
    header,            \* a PdfTableHeader with the last call made on it, or None
    \* ProductInfo
    product            \* a ProductInfo with the last call made on it, or None

build_vars ==
    <<indicators, data, pc, error, entries, current_entry, current_names,
      current_batches, current_evidence>>

eval_vars == <<item_batches, eval_pc, review_result>>

read_vars ==
    <<document, read_pc, page_index, line_index, result_date, headers>>

vars == <<build_vars, eval_vars, read_vars, header, product>>

(***************************************************************************)
(* PdfTableToRatReviewEntries.build.                                       *)
(***************************************************************************)
\* all(c.isdigit() for c in artg)
AllDigits(artg) == \A i \in 1..Len(artg) : IsDigit(artg[i])

\* Lines 351-368: the normalised fields of a row, with artg and artg_comment
\* as the digit test leaves them.  Iterating the True that _norm returns for
\* an identifier cell "yes" raises TypeError (see RowError).
Fields(item, multi_product_indicator) ==
    LET artg == Norm(item.artg)
        named == NormName(item.name, multi_product_indicator)
        comment == Truthy(artg) /\ artg # PyTrue /\ ~AllDigits(artg)
    IN  [artg |-> IF comment THEN None ELSE artg,
         artg_comment |-> IF comment THEN artg ELSE None,
         sponsor |-> Norm(item.sponsor),
         manufacturer |-> Norm(item.manufacturer),
         is_new_name |-> named.is_new_name,
         name |-> named.name,
         batch |-> Norm(item.batch),
         wild |-> Norm(item.wild),
         delta |-> Norm(item.delta),
         omicron |-> Norm(item.omicron),
         quality |-> Norm(item.quality),
         provided |-> Norm(item.provided)]

\* if artg and current_entry
Closes(f, entry) == Truthy(f.artg) /\ DictTruthy(entry)

\* A variant of the reset that keeps the accumulator of the closed entry.
ResetKeeps(closes, current, empty) == current

\* Lines 382-386: an accumulator after `if artg and current_entry`, which
\* resets it to `empty` when the row closes the open entry.
Reset(closes, current, empty) == IF closes THEN empty ELSE current

\* Lines 388-390.
NextEntry(f, entry) == IF Truthy(f.artg) THEN EmptyEntry ELSE entry

\* Lines 392-394.
NextNames(f, names) ==
    IF ~Truthy(f.name) \/ names = <<>> \/ f.is_new_name
    THEN Append(names, <<>>)
    ELSE names

\* Lines 396-398.
NextBatches(f, batches) ==
    IF Truthy(f.batch) THEN Append(batches, EmptyBatch) ELSE batches

\* A variant of the evidence cursor that starts a slot on every row.
NextEvidenceEachRow(f, evidence) == Append(evidence, <<>>)

\* Lines 400-402, for a provided that is not True with slots present
\* (":" in True raises TypeError, see RowError).
NextEvidence(f, evidence) ==
    IF ~Truthy(f.provided) \/ evidence = <<>> \/ Contains(f.provided, <<":">>)
    THEN Append(evidence, <<>>)
    ELSE evidence

\* Lines 404-407.
AddEntry(f, entry) ==
    DictAdd(DictAdd(DictAdd(DictAdd(entry, "artg", f.artg),
                            "sponsor", f.sponsor),
                    "manufacturer", f.manufacturer),
            "artg_comment", f.artg_comment)

\* Lines 411-415, for a non-empty list of batch slots.
AddBatch(f, batches) ==
    [batches EXCEPT ![Len(batches)] =
        DictAdd(DictAdd(DictAdd(DictAdd(DictAdd(batches[Len(batches)],
                                                "batch", f.batch),
                                        "wild", f.wild),
                                "delta", f.delta),
                        "omicron", f.omicron),
                "quality", f.quality)]

\* The exception one iteration raises, in the order the statements run, or
\* "none": for the row `item` with the accumulators as they are before it.
RowError(item, ind, entry, names, batches, evidence) ==
    LET f == Fields(item, ind["multiple-products"])
        closes == Closes(f, entry)
        evidence0 == Reset(closes, evidence, <<>>)
        batches0 == Reset(closes, batches, <<>>)
    IN  IF Norm(item.artg) = PyTrue THEN "TypeError"
        ELSE IF closes /\ BuildEntryError(evidence, ind) # "none"
             THEN BuildEntryError(evidence, ind)
        ELSE IF f.provided = PyTrue /\ evidence0 # <<>> THEN "TypeError"
        ELSE IF NextBatches(f, batches0) = <<>> THEN "IndexError"
        ELSE IF f.provided = PyTrue THEN "TypeError"
        ELSE "none"

\* build's locals at line 341-346.
BuildLocals ==
    [error |-> "none", entries |-> <<>>, current_entry |-> EmptyEntry,
     current_names |-> <<>>, current_batches |-> <<>>,
     current_evidence |-> <<>>]

\* One iteration of `for item in data` (lines 350-417) on the locals st.  An
\* exception leaves build: the locals are lost, and are left as they were.
BuildStep(st, item, ind) ==
    LET f == Fields(item, ind["multiple-products"])
        raised == RowError(item, ind, st.current_entry, st.current_names,
                           st.current_batches, st.current_evidence)
        closes == Closes(f, st.current_entry)
        entry0 == Reset(closes, st.current_entry, EmptyEntry)
        names0 == Reset(closes, st.current_names, <<>>)
        batches0 == Reset(closes, st.current_batches, <<>>)
        evidence0 == Reset(closes, st.current_evidence, <<>>)
    IN  IF raised # "none" THEN [st EXCEPT !.error = raised]
        ELSE [error |-> "none",
              entries |->
                  IF closes
                  THEN Append(st.entries,
                              BuildEntry(st.current_entry, st.current_names,
                                         st.current_batches,
                                         st.current_evidence, ind))
                  ELSE st.entries,
              current_entry |-> AddEntry(f, NextEntry(f, entry0)),
              current_names |-> ListAdd(NextNames(f, names0), f.name),
              current_batches |-> AddBatch(f, NextBatches(f, batches0)),
              current_evidence |->
                  ListAdd(NextEvidence(f, evidence0), f.provided)]

\* The loop over the rows, until one raises.
RECURSIVE BuildLoop(_, _, _)
BuildLoop(st, rows, ind) ==
    IF rows = <<>> \/ st.error # "none" THEN st
    ELSE BuildLoop(BuildStep(st, Head(rows), ind), Tail(rows), ind)

\* build(data, indicators) as a whole: the locals at line 419, whose entries
\* are returned when error is "none".
Build(rows, ind) ==
    IF ind["multiple-products"] = Missing
    THEN [BuildLocals EXCEPT !.error = "KeyError"]
    ELSE BuildLoop(BuildLocals, rows, ind)

BuildIdle ==
    /\ indicators = NoIndicators
    /\ data = <<>>
    /\ pc = "idle"
    /\ error = "none"
    /\ entries = <<>>
    /\ current_entry = EmptyEntry
    /\ current_names = <<>>
    /\ current_batches = <<>>
    /\ current_evidence = <<>>

EvalIdle ==
    /\ item_batches = <<>>
    /\ eval_pc = "idle"
    /\ review_result = {}

ReadIdle ==
    /\ document = <<>>
    /\ read_pc = "idle"
    /\ page_index = -1
    /\ line_index = 0
    /\ result_date = None
    /\ headers = <<>>

Init ==
    /\ indicators \in Legends
    /\ data = <<>>
    /\ pc = "start"
    /\ error = BuildLocals.error
    /\ entries = BuildLocals.entries
    /\ current_entry = BuildLocals.current_entry
    /\ current_names = BuildLocals.current_names
    /\ current_batches = BuildLocals.current_batches
    /\ current_evidence = BuildLocals.current_evidence
    /\ EvalIdle
    /\ ReadIdle
    /\ header = None
    /\ product = None

\* Lines 341-348: multi_product_indicator = indicators["multiple-products"]
\* raises KeyError when the legend has no such key.
BuildStart ==
    /\ pc = "start"
    /\ IF indicators["multiple-products"] = Missing
       THEN pc' = "error" /\ error' = "KeyError"
       ELSE pc' = "loop" /\ error' = error
    /\ UNCHANGED <<indicators, data, entries, current_entry, current_names,
                   current_batches, current_evidence>>
    /\ UNCHANGED <<eval_vars, read_vars, header, product>>

\* One iteration of `for item in data` (lines 350-417), on the next row of
\* the stream.
BuildRow ==
    /\ pc = "loop"
    /\ Len(data) < MaxRows
    /\ \E item \in Rows :
          LET st == [error |-> error, entries |-> entries,
                     current_entry |-> current_entry,
                     current_names |-> current_names,
                     current_batches |-> current_batches,
                     current_evidence |-> current_evidence]
          IN  \E after \in {BuildStep(st, item, indicators)} :
                 /\ data' = Append(data, item)
                 /\ pc' = IF after.error # "none" THEN "error" ELSE pc
                 /\ error' = after.error
                 /\ entries' = after.entries
                 /\ current_entry' = after.current_entry
                 /\ current_names' = after.current_names
                 /\ current_batches' = after.current_batches
                 /\ current_evidence' = after.current_evidence
    /\ UNCHANGED indicators
    /\ UNCHANGED <<eval_vars, read_vars, header, product>>

\* Line 419: return entries, when the rows are exhausted.
BuildReturn ==
    /\ pc = "loop"
    /\ pc' = "done"
    /\ UNCHANGED <<indicators, data, error, entries, current_entry,
                   current_names, current_batches, current_evidence>>
    /\ UNCHANGED <<eval_vars, read_vars, header, product>>

Next == BuildStart \/ BuildRow \/ BuildReturn

Spec == Init /\ [][Next]_vars

(***************************************************************************)
(* Report._eval_review_batches and RatReviewBatch.all_compliant.           *)
(***************************************************************************)
\* The longest list of batches of one entry.
MaxBatches == 3

\* a < b of two str: by code point, a proper prefix first.
StrLess(a, b) ==
    \E i \in 1..(Len(a) + 1) :
        /\ i <= Len(b)
        /\ \A k \in 1..(i - 1) : a[k] = b[k]
        /\ i = Len(a) + 1 \/ Ord(a[i]) < Ord(b[i])

\* `sorted` after one more element x: x goes behind the elements whose key
\* is not greater than its own, so equal keys keep their order.
Insert(sorted, x) ==
    LET n == Cardinality({i \in 1..Len(sorted) :
                              ~StrLess(x.batch, sorted[i].batch)})
    IN  SubSeq(sorted, 1, n) \o <<x>> \o SubSeq(sorted, n + 1, Len(sorted))

\* sorted(batches, key=lambda x: x.batch)
RECURSIVE Sorted(_)
Sorted(batches) ==
    IF batches = <<>> THEN <<>>
    ELSE Insert(Sorted(SubSeq(batches, 1, Len(batches) - 1)),
                batches[Len(batches)])

\* RatReviewBatch.all_compliant
AllCompliant(batch) ==
    \A i \in 1..Len(batch.analytical_sensitivities) :
        batch.analytical_sensitivities[i].compliant

\* A variant of the check that looks at every batch, the last included.
EvalRaisesOnAll(batches) ==
    /\ Len(batches) > 1
    /\ ~(\A i \in 1..Len(batches) : ~AllCompliant(batches[i]))
    /\ ~(\A i \in 1..Len(batches) : AllCompliant(batches[i]))

\* Lines 294-298: raise ValueError().
EvalRaises(batches) ==
    /\ Len(batches) > 1
    /\ LET previous == SubSeq(batches, 1, Len(batches) - 1)
           previous_all_bad ==
               \A i \in 1..Len(previous) : ~AllCompliant(previous[i])
           previous_all_good ==
               \A i \in 1..Len(previous) : AllCompliant(previous[i])
       IN  ~previous_all_bad /\ ~previous_all_good

\* Lines 300-311: the result dict of the batch, as its <<key, value>> pairs;
\* a name that occurs twice keeps the value written last.
ReviewResult(batch) ==
    LET tests == batch.analytical_sensitivities
        value(i) == IF tests[i].compliant THEN "yes" ELSE "no"
    IN  {<<tests[i].name, value(i)>> :
            i \in {j \in 1..Len(tests) :
                      \A k \in (j + 1)..Len(tests) : tests[k].name # tests[j].name}}

\* The batch whose sensitivities are reported: batches_sorted[-1].
ReportedBatch(batches) == Sorted(batches)[Len(batches)]

\* A RatReviewAnalyticalSensitivity.
Sensitivity(name, compliant, comment) ==
    [name |-> name, compliant |-> compliant, comment |-> comment]

\* The sensitivities of a batch: none, one compliant, one non-compliant, and
\* a compliant one with a commented non-compliant one.
TestLists ==
    {<<>>,
     <<Sensitivity("wild", TRUE, None)>>,
     <<Sensitivity("wild", FALSE, None)>>,
     <<Sensitivity("wild", TRUE, None), Sensitivity("delta", FALSE, <<"x">>)>>}

\* Batch identifiers whose order as str differs from their order as numbers.
BatchIds == {<<"2">>, <<"1", "0">>, <<"9">>}

ReviewBatches ==
    {[batch |-> b, analytical_sensitivities |-> t] :
        b \in BatchIds, t \in TestLists}

BatchLists ==
    UNION {[1..n -> ReviewBatches] : n \in 0..MaxBatches}

InitEval ==
    /\ BuildIdle
    /\ ReadIdle
    /\ header = None
    /\ product = None
    /\ item_batches \in BatchLists
    /\ eval_pc = "call"
    /\ review_result = {}

\* review_result = self._eval_review_batches(batches)
EvalReviewBatches ==
    /\ eval_pc = "call"
    /\ IF item_batches = <<>>
       THEN eval_pc' = "returned" /\ review_result' = {}
       ELSE IF EvalRaises(item_batches)
            THEN eval_pc' = "raised" /\ review_result' = review_result
            ELSE /\ eval_pc' = "returned"
                 /\ review_result' = ReviewResult(ReportedBatch(item_batches))
    /\ UNCHANGED item_batches
    /\ UNCHANGED <<build_vars, read_vars, header, product>>

NextEval == EvalReviewBatches

SpecEval == InitEval /\ [][NextEval]_vars

\* The lines of the page the loop is in; none before the first page.
Lines == IF page_index < 0 THEN <<>> ELSE document[page_index + 1]

InitRead ==
    /\ BuildIdle
    /\ EvalIdle
    /\ header = None
    /\ product = None
    /\ document \in Documents
    /\ read_pc = "loop"
    /\ page_index = -1
    /\ line_index = 0
    /\ result_date = ReadLocals.result_date
    /\ headers = ReadLocals.headers

\* Lines 41-43: the next page, with a header of its own.
ReadPage ==
    /\ read_pc = "loop"
    /\ line_index = Len(Lines)
    /\ page_index + 1 < Len(document)
    /\ page_index' = page_index + 1
    /\ line_index' = 0
    /\ headers' = Append(headers, NoActual)
    /\ UNCHANGED <<document, read_pc, result_date>>
    /\ UNCHANGED <<build_vars, eval_vars, header, product>>

\* One iteration of `for line in lines` (lines 45-76), on the next line of
\* the page.
ReadLine ==
    /\ read_pc = "loop"
    /\ line_index < Len(Lines)
    /\ LET st == [error |-> error, result_date |-> result_date,
                  indicators |-> indicators, headers |-> headers,
                  data |-> data]
       IN  \E after \in {ReadLineStep(st, Lines[line_index + 1], page_index)} :
              /\ read_pc' = IF after.error # "none" THEN "error" ELSE read_pc
              /\ error' = after.error
              /\ result_date' = after.result_date
              /\ indicators' = after.indicators
              /\ headers' = after.headers
              /\ data' = after.data
    /\ line_index' = line_index + 1
    /\ UNCHANGED <<document, page_index>>
    /\ UNCHANGED <<pc, entries, current_entry, current_names, current_batches,
                   current_evidence>>
    /\ UNCHANGED <<eval_vars, header, product>>

\* Lines 78-82, when the pages are exhausted: build, whose exception leaves
\* read, and the RatReviewTable of result_date and the entries.
ReadReturn ==
    /\ read_pc = "loop"
    /\ line_index = Len(Lines)
    /\ page_index + 1 = Len(document)
    /\ \E built \in {Build(data, indicators)} :
          /\ read_pc' = IF built.error # "none" THEN "error" ELSE "done"
          /\ error' = built.error
          /\ entries' = IF built.error # "none" THEN entries ELSE built.entries
    /\ UNCHANGED <<document, page_index, line_index, result_date, headers>>
    /\ UNCHANGED <<indicators, data, pc, current_entry, current_names,
                   current_batches, current_evidence>>
    /\ UNCHANGED <<eval_vars, header, product>>

\* The RatReviewTable read returns, once read_pc = "done".
Result == [date |-> result_date, entries |-> entries]

NextRead == ReadPage \/ ReadLine \/ ReadReturn

SpecRead == InitRead /\ [][NextRead]_vars

(***************************************************************************)
(* PdfTableHeader, called as PdfTableDocument.read calls it: add_header_line *)
(* on any line, and get_row on any line once the header is complete.       *)
(***************************************************************************)
InitHeader ==
    /\ BuildIdle
    /\ EvalIdle
    /\ ReadIdle
    /\ header = NewHeader
    /\ product = None

\* is_header = header.add_header_line(line)
CallAddHeaderLine ==
    /\ \E line \in TableLines :
          \E added \in {AddHeaderLine(header.actual, line)} :
             header' = [actual |-> added.actual, called |-> "add_header_line",
                        line |-> line, data |-> None,
                        returned |-> IF added.is_header THEN PyTrue
                                     ELSE PyFalse,
                        error |-> "none"]
    /\ UNCHANGED <<build_vars, eval_vars, read_vars, product>>

\* item = header.get_row(line), on a complete header: header_indexes raises
\* at line 237 before `data` is bound, get_row raises at line 298, and
\* otherwise get_row returns the row.
CallGetRow ==
    /\ IsComplete(header.actual)
    /\ LET raised(line, geometry) ==
               [actual |-> header.actual, called |-> "get_row", line |-> line,
                data |-> geometry, returned |-> None, error |-> "ValueError"]
       IN  IF HeaderIndexesRaises(header.actual)
           THEN \E line \in TableLines : header' = raised(line, None)
           ELSE \E geometry \in {HeaderIndexes(header.actual)} :
                   \E line \in TableLines :
                      IF GetRowRaises(geometry, line)
                      THEN header' = raised(line, geometry)
                      ELSE \E row \in {GetRow(geometry, line, 0)} :
                              header' =
                                  [raised(line, geometry) EXCEPT
                                       !.returned =
                                           [name \in DOMAIN row \ {"page"} |->
                                               row[name]],
                                       !.error = "none"]
    /\ UNCHANGED <<build_vars, eval_vars, read_vars, product>>

NextHeader == CallAddHeaderLine \/ CallGetRow

SpecHeader == InitHeader /\ [][NextHeader]_vars

(***************************************************************************)
(* ProductInfo.set_prop.  errors, a dict of sets, is the set of its        *)
(* <<key, value>> pairs: set_prop creates a key of errors only to add a    *)
(* value to it.                                                            *)
(***************************************************************************)
\* set_prop(key, value) on the ProductInfo info; hasattr(self, key) holds
\* for the name of a field, for "errors" and for any other attribute of the
\* object, such as the method set_prop itself, whose value is not None and
\* equals no str.
SetProp(info, key, value) ==
    LET has_attr == key \in DOMAIN info.fields \cup {"errors", "set_prop"}
        existing == IF key \in DOMAIN info.fields THEN info.fields[key]
                    ELSE <<"bound method">>
    IN  IF ~has_attr \/ key = "errors"
        THEN [info EXCEPT !.error = "ValueError"]
        ELSE IF existing = None
             THEN [info EXCEPT !.fields[key] = value, !.error = "none"]
             ELSE IF existing # value
                  THEN [info EXCEPT !.errors = @ \cup {<<key, "mismatch", value>>},
                                    !.error = "none"]
                  ELSE [info EXCEPT !.error = "none"]

\* ProductInfo(): every field None and errors an empty dict.
InitProp ==
    /\ BuildIdle
    /\ EvalIdle
    /\ ReadIdle
    /\ header = None
    /\ product =
           [fields |->
                [name \in {"details_url", "sponsor", "date_approved",
                           "manufacturer", "test_type", "intended_use",
                           "date_updated", "type_of_use", "instructions_url",
                           "sample_type", "sensitivity", "expiry", "comment",
                           "variants", "review_wild", "review_delta",
                           "review_omicron", "review_quality"} |-> None],
            errors |-> {}, called |-> "__init__", key |-> "",
            value |-> None, error |-> "none"]

\* result[info].set_prop(key, value): with a key that both loops of
\* _combine_data set, one that the second loop sets, "errors", the name of
\* the method and a name that is no attribute; the value a str or None.
CallSetProp ==
    /\ \E key \in {"sponsor", "comment", "errors", "set_prop", "batch"} :
          \E value \in {None, <<"a">>, <<"b">>} :
             product' = [SetProp(product, key, value) EXCEPT
                           !.called = "set_prop", !.key = key,
                           !.value = value]
    /\ UNCHANGED <<build_vars, eval_vars, read_vars, header>>

NextProp == CallSetProp

SpecProp == InitProp /\ [][NextProp]_vars

(***************************************************************************)
(* Properties of build.  The rows build has taken are cut into entries the *)
(* way the specification describes: the first row opens an entry, and so   *)
(* does every later row whose identifier cell is digits only.              *)
(***************************************************************************)
\* The row's normalised identifier cell is a digit-only text.
IsIdentifierRow(item) ==
    LET artg == Norm(item.artg)
    IN  artg \notin {None, PyTrue, PyFalse} /\ AllDigits(artg)

\* The row's normalised identifier cell is a text with a non-digit character
\* (the tokens "yes" and "no" normalise to booleans, not to texts).
IsCommentaryRow(item) ==
    LET artg == Norm(item.artg)
    IN  artg \notin {None, PyTrue, PyFalse} /\ ~AllDigits(artg)

SegmentStarts == {i \in 1..Len(data) : i = 1 \/ IsIdentifierRow(data[i])}

NumSegments == Cardinality(SegmentStarts)

SegmentStart(k) ==
    CHOOSE i \in SegmentStarts : Cardinality({j \in SegmentStarts : j <= i}) = k

SegmentEnd(k) ==
    IF k < NumSegments THEN SegmentStart(k + 1) - 1 ELSE Len(data)

\* The rows of the k-th entry.
SegmentRows(k) == SubSeq(data, SegmentStart(k), SegmentEnd(k))

\* The four accumulators after the rows of one entry, started empty.
RECURSIVE Accumulate(_)
Accumulate(rows) ==
    IF rows = <<>>
    THEN [entry |-> EmptyEntry, names |-> <<>>, batches |-> <<>>,
          evidence |-> <<>>]
    ELSE LET a == Accumulate(SubSeq(rows, 1, Len(rows) - 1))
             f == Fields(rows[Len(rows)], indicators["multiple-products"])
         IN  [entry |-> AddEntry(f, NextEntry(f, a.entry)),
              names |-> ListAdd(NextNames(f, a.names), f.name),
              batches |-> AddBatch(f, NextBatches(f, a.batches)),
              evidence |-> ListAdd(NextEvidence(f, a.evidence), f.provided)]

\* The entry that the rows of one entry, and no other row, build.
EntryOf(rows) ==
    LET a == Accumulate(rows)
    IN  BuildEntry(a.entry, a.names, a.batches, a.evidence, indicators)

\* C1: at the end of a non-empty stream the entry that is open is appended
\* to the returned list, so that every entry of the stream is returned.
C1_FinalEntryClosed ==
    (pc = "done" /\ data # <<>>) =>
        /\ Len(entries) = NumSegments
        /\ entries[Len(entries)] =
               BuildEntry(current_entry, current_names, current_batches,
                          current_evidence, indicators)

\* C2: a stream of two rows that each carry a digit-only identifier returns
\* two entries, the first from the first row alone and the second from the
\* second row alone.
C2_TwoIdentifierRows ==
    (/\ pc = "done"
     /\ Len(data) = 2
     /\ IsIdentifierRow(data[1])
     /\ IsIdentifierRow(data[2])) =>
        /\ Len(entries) = 2
        /\ entries[1] = EntryOf(<<data[1]>>)
        /\ entries[2] = EntryOf(<<data[2]>>)

\* C3: while build runs or has returned, every identifier row after the
\* first has appended exactly one entry, each appended entry is built from
\* exactly the rows between two closes, and the accumulators hold the rows
\* since the last close and nothing of the rows before it.
C3_CloseOnIdentifier ==
    (pc \in {"loop", "done"} /\ data # <<>>) =>
        /\ Len(entries) = NumSegments - 1
        /\ \A k \in 1..Len(entries) : entries[k] = EntryOf(SegmentRows(k))
        /\ LET a == Accumulate(SegmentRows(NumSegments))
           IN  /\ current_entry = a.entry
               /\ current_names = a.names
               /\ current_batches = a.batches
               /\ current_evidence = a.evidence

\* An identifier row has just closed an entry that two rows built.
C3_Witness ==
    /\ pc = "loop"
    /\ Len(data) = 3
    /\ IsIdentifierRow(data[3])
    /\ ~IsIdentifierRow(data[2])
    /\ Len(entries) = 1

\* The texts of the identifier cells of the commentary rows, space-joined.
RECURSIVE JoinCommentary(_)
JoinCommentary(rows) ==
    IF rows = <<>> THEN <<>>
    ELSE LET before == JoinCommentary(SubSeq(rows, 1, Len(rows) - 1))
             item == rows[Len(rows)]
         IN  IF ~IsCommentaryRow(item) THEN before
             ELSE IF before = <<>> THEN Norm(item.artg)
             ELSE before \o <<" ">> \o Norm(item.artg)

\* The rows of the k-th entry, other than row i of the stream, that have
\* anything in the identifier cell.
OtherIdentifierCells(k, i) ==
    {j \in SegmentStart(k)..SegmentEnd(k) : j # i /\ Norm(data[j].artg) # None}

Slots(k) == Accumulate(SegmentRows(k)).batches

\* The value of sensitivity i in batch slot j of the k-th entry's rows.
SlotValue(k, j, i) == Slots(k)[j][SensitivityKeys[i]]

\* C5, as claimed: with the compliant legend line read, a cell equal to the
\* compliant sentence is compliant without comment, and any other non-empty
\* cell is non-compliant with its text as comment.
C5_SentenceCompliant ==
    indicators["yes"] # Missing =>
        \A k \in 1..Len(entries) :
            LET slots == Slots(k)
            IN  \A j \in 1..Len(entries[k].batches) :
                    \A i \in 1..Len(SensitivityKeys) :
                        LET value == slots[j][SensitivityKeys[i]]
                            test == entries[k].batches[j].analytical_sensitivities[i]
                        IN  IF value = KeyLineYes
                            THEN test.compliant /\ test.comment = None
                            ELSE value # <<>> =>
                                     (~test.compliant /\ test.comment = value)

\* C5, amended: the legend holds the leading character of the legend line;
\* a cell equal to the compliant line's character is compliant without
\* comment, a cell equal to the non-compliant line's character is
\* non-compliant without comment, and every other cell, the legend sentence
\* and the empty text included, is non-compliant with its text as comment.
C5_SymbolCompliant ==
    /\ indicators["yes"] \in {Missing, <<Head(LegendLineYes)>>}
    /\ indicators["no"] \in {Missing, <<Head(LegendLineNo)>>}
    /\ \A k \in 1..Len(entries) :
           LET slots == Slots(k)
           IN  \A j \in 1..Len(entries[k].batches) :
                   \A i \in 1..Len(SensitivityKeys) :
                       LET value == slots[j][SensitivityKeys[i]]
                           test == entries[k].batches[j].analytical_sensitivities[i]
                       IN  /\ test.name = SensitivityKeys[i]
                           /\ IF value = <<Head(LegendLineYes)>>
                              THEN test.compliant /\ test.comment = None
                              ELSE IF value = <<Head(LegendLineNo)>>
                                   THEN ~test.compliant /\ test.comment = None
                                   ELSE ~test.compliant /\ test.comment = value

\* An appended entry with a cell equal to the compliant sentence, one equal
\* to the compliant symbol and one equal to another text.
C5_Witness ==
    /\ Len(entries) >= 1
    /\ Len(entries[1].batches) >= 1
    /\ \E i \in 1..Len(SensitivityKeys) : SlotValue(1, 1, i) = KeyLineYes
    /\ \E i \in 1..Len(SensitivityKeys) :
           SlotValue(1, 1, i) = <<Head(LegendLineYes)>>
    /\ \E i \in 1..Len(SensitivityKeys) : SlotValue(1, 1, i) = <<"x">>

VariantAB == <<"V", "a", "r", "i", "a", "n", "t", ":", " ", "A", ",", " ", "B">>

Variant == <<"V", "a", "r", "i", "a", "n", "t">>

\* The k-th entry has a row with evidence cell "Variant: A, B", followed by
\* a row with evidence cell "C", and no other row with an evidence cell.
VariantThenC(k) ==
    \E i \in SegmentStart(k)..(SegmentEnd(k) - 1) :
        /\ Norm(data[i].provided) = VariantAB
        /\ Norm(data[i + 1].provided) = <<"C">>
        /\ \A j \in SegmentStart(k)..SegmentEnd(k) :
               j \notin {i, i + 1} => Norm(data[j].provided) = None

\* C6, as claimed: such an entry has exactly three evidence records, all of
\* group "Variant", named A, B and C.
C6_ThreeRecords ==
    \A k \in 1..Len(entries) :
        VariantThenC(k) =>
            LET records == entries[k].manufacturer_evidence
            IN  /\ Len(records) = 3
                /\ \A r \in 1..3 : records[r].group = Variant
                /\ {Strip(records[r].name) : r \in 1..3} = {<<"A">>, <<"B">>, <<"C">>}

\* C6, amended: such an entry has exactly two evidence records, both of
\* group "Variant", named " A" and " B C": the continuation cell is
\* space-joined onto the open slot, so onto its last value.
C6_TwoRecords ==
    \A k \in 1..Len(entries) :
        VariantThenC(k) =>
            entries[k].manufacturer_evidence =
                <<[group |-> Variant, name |-> <<" ", "A">>],
                  [group |-> Variant, name |-> <<" ", "B", " ", "C">>]>>

\* An appended entry built from such rows.
C6_Witness == Len(entries) >= 1 /\ VariantThenC(1)

\* A non-empty slot with more than one colon.
ManyColons(slots) ==
    \E i \in 1..Len(slots) : slots[i] # <<>> /\ Count(slots[i], ":") > 1

\* The group of slot i by the colon rule: its own text before the colon, or
\* that of the nearest earlier non-empty slot with exactly one colon, or
\* None when the entry has none.
SlotGroup(slots, i) ==
    LET grouped == {j \in 1..i : slots[j] # <<>> /\ Count(slots[j], ":") = 1}
    IN  IF grouped = {} THEN None
        ELSE LET j == CHOOSE g \in grouped : \A h \in grouped : h <= g
             IN  Split(slots[j], ":")[1]

\* The comma-separated values of slot i by the colon rule.
SlotValues(slots, i) ==
    IF Count(slots[i], ":") = 1
    THEN Split(Split(slots[i], ":")[2], ",")
    ELSE Split(slots[i], ",")

\* The number of records of the slots before slot i.
RECURSIVE RecordsBefore(_, _)
RecordsBefore(slots, i) ==
    IF i <= 1 THEN 0
    ELSE RecordsBefore(slots, i - 1)
             + (IF slots[i - 1] = <<>> THEN 0 ELSE Len(SlotValues(slots, i - 1)))

\* The records follow the colon rule, slot by slot and value by value.
FollowsColonRule(records, slots) ==
    /\ Len(records) = RecordsBefore(slots, Len(slots) + 1)
    /\ \A i \in 1..Len(slots) :
           slots[i] # <<>> =>
               \A v \in 1..Len(SlotValues(slots, i)) :
                   records[RecordsBefore(slots, i) + v] =
                       [group |-> SlotGroup(slots, i),
                        name |-> SlotValues(slots, i)[v]]

\* C7: every appended entry has no slot with more than one colon and has
\* the records of the colon rule; build raises ValueError, and returns
\* nothing, exactly when an identifier row closes an entry that has a slot
\* with more than one colon.
C7_ColonRule ==
    /\ \A k \in 1..Len(entries) :
           LET slots == Accumulate(SegmentRows(k)).evidence
           IN  /\ ~ManyColons(slots)
               /\ FollowsColonRule(entries[k].manufacturer_evidence, slots)
    /\ (pc = "error" /\ error = "ValueError") <=>
           /\ Len(data) >= 2
           /\ IsIdentifierRow(data[Len(data)])
           /\ Len(entries) = NumSegments - 2
           /\ ManyColons(Accumulate(SegmentRows(NumSegments - 1)).evidence)

\* An appended entry with a one-colon slot and, after it, a slot without a
\* colon whose records take the group of the first.
C7_Witness ==
    \E k \in 1..Len(entries) :
        LET slots == Accumulate(SegmentRows(k)).evidence
        IN  \E i \in 1..Len(slots) :
                /\ slots[i] # <<>>
                /\ Count(slots[i], ":") = 0
                /\ SlotGroup(slots, i) # None

(***************************************************************************)
(* Properties of _eval_review_batches.                                     *)
(***************************************************************************)
\* allCompliant of the i-th batch: every sensitivity it holds is compliant.
FullyCompliant(i) ==
    \A s \in 1..Len(item_batches[i].analytical_sensitivities) :
        item_batches[i].analytical_sensitivities[s].compliant

\* The batches have the given all_compliant values, in input order.
CompliancePattern(pattern) ==
    /\ Len(item_batches) = Len(pattern)
    /\ \A i \in 1..Len(pattern) : FullyCompliant(i) = pattern[i]

\* C8: the call raises exactly when the entry has more than one batch and
\* the batches other than the last are neither all fully compliant nor all
\* not fully compliant; [false, false, true] returns, [false, true, false]
\* raises, and no or one batch returns.
C8_AmbiguousBatchOrder ==
    eval_pc \in {"returned", "raised"} =>
        /\ eval_pc = "raised" <=>
               \E i, j \in 1..(Len(item_batches) - 1) :
                   FullyCompliant(i) /\ ~FullyCompliant(j)
        /\ CompliancePattern(<<FALSE, FALSE, TRUE>>) => eval_pc = "returned"
        /\ CompliancePattern(<<FALSE, TRUE, FALSE>>) => eval_pc = "raised"
        /\ Len(item_batches) <= 1 => eval_pc = "returned"

\* The call has raised on [false, true, false].
C8_Witness ==
    eval_pc = "raised" /\ CompliancePattern(<<FALSE, TRUE, FALSE>>)

(***************************************************************************)
(* Claims about PdfTableDocument.read (specification SpecRead).            *)
(***************************************************************************)
RECURSIVE Flatten(_)
Flatten(pages) ==
    IF pages = <<>> THEN <<>> ELSE Head(pages) \o Flatten(Tail(pages))

\* The lines the loop has taken so far, in page and line order.
LinesTaken ==
    IF page_index < 0 THEN <<>>
    ELSE Flatten(SubSeq(document, 1, page_index))
             \o SubSeq(Lines, 1, line_index)

\* The lines taken that contain the legend sentence of key, by position.
SentenceLines(key) ==
    {i \in 1..Len(LinesTaken) : Contains(LinesTaken[i], KeyLines[key])}

\* The first of a non-empty set of positions.
First(positions) == CHOOSE i \in positions : \A j \in positions : i <= j

\* C9: the symbol recorded for a legend key is the leading character of the
\* first line taken that contains the key's legend sentence, so that a later
\* line with the same sentence does not change it.
C9_FirstLegendLineWins ==
    read_pc \in {"loop", "done"} =>
        \A key \in IndicatorKeys :
            SentenceLines(key) # {} =>
                indicators[key] = <<LinesTaken[First(SentenceLines(key))][1]>>

\* A line that is neither empty nor blank and that result_date_pattern
\* matches once stripped.
IsResultDateLine(line) ==
    Strip(line) # <<>> /\ ResultDateMatch(Strip(line)) # <<>>

\* The datetime of a results-date line.
DateOf(line) == Strptime(ResultDateMatch(Strip(line))).value

ResultDateLines ==
    {i \in 1..Len(LinesTaken) : IsResultDateLine(LinesTaken[i])}

\* The loop is about to take a results-date line.
AtResultDateLine ==
    /\ read_pc = "loop"
    /\ line_index < Len(Lines)
    /\ IsResultDateLine(Lines[line_index + 1])

\* The date of the first results-date line taken, None when none was.
FirstResultDate ==
    IF ResultDateLines = {} THEN None
    ELSE DateOf(LinesTaken[First(ResultDateLines)])

\* C10: while read runs result_date is the date of the first results-date
\* line taken so far, None when none was taken; the date of the table read
\* returns is that of the first results-date line of the document; and
\* taking a results-date line leaves a date that is set, the headers and
\* the rows as they are.
C10_FirstResultDateWins ==
    /\ [](read_pc = "loop" => result_date = FirstResultDate)
    /\ [](read_pc = "done" => Result.date = FirstResultDate)
    /\ [][AtResultDateLine =>
            /\ headers' = headers
            /\ data' = data
            /\ result_date # None => result_date' = result_date]_vars

\* read has returned a table for a document with results-date lines of two
\* different dates, the later of them on a later page.
C10_Witness ==
    /\ read_pc = "done"
    /\ \E i, j \in ResultDateLines :
          /\ i < j
          /\ j > Len(document[1])
          /\ i = First(ResultDateLines)
          /\ DateOf(LinesTaken[i]) # DateOf(LinesTaken[j])
    /\ result_date # None

\* The line the loop of read is at, and the _actual of the header of its
\* page.
TakenLine == Lines[line_index + 1]

PageHeader == headers[page_index + 1]

\* A blank line, a results-date line, a page footer or a legend line.
IsBoilerplate(line) ==
    \/ Strip(line) = <<>>
    \/ IsResultDateLine(line)
    \/ PageOfMatch(Strip(line))
    \/ \E key \in IndicatorKeys : Contains(line, KeyLines[key])

\* read is at a line that it hands to get_row: one that is not boilerplate,
\* on a page whose header is complete.
AtRowLine ==
    /\ read_pc = "loop"
    /\ line_index < Len(Lines)
    /\ ~IsBoilerplate(TakenLine)
    /\ IsComplete(PageHeader)

\* One of the two characters before the start of a left-aligned column other
\* than the first is not whitespace.
Drifts(geometry, line) ==
    \E index \in 1..9 :
        /\ geometry[index].align = "left"
        /\ \E offset \in {geometry[index].start - 2, geometry[index].start - 1} :
               /\ offset < Len(line)
               /\ line[offset + 1] \notin WhiteSpace

\* C14: get_row raises for a line exactly when one of the two characters
\* before the start of a left-aligned column other than the first is not
\* whitespace; then read raises and the rows are left without one for that
\* line, and otherwise the line adds one row.
C14_RaisesOnDrift ==
    [][AtRowLine =>
          IF Drifts(HeaderIndexes(PageHeader), TakenLine)
          THEN read_pc' = "error" /\ error' = "ValueError" /\ data' = data
          ELSE read_pc' = "loop" /\ error' = "none"
                   /\ Len(data') = Len(data) + 1]_vars

\* read raised at a line whose identifier runs into the separator before the
\* sponsor, after a line that it sliced into a row.
C14_Witness ==
    /\ read_pc = "error"
    /\ error = "ValueError"
    /\ line_index > 0
    /\ Lines[line_index] = DataLineWide
    /\ Len(data) = 1

Offer(line) == AddHeaderLineFrom(line, 0, 0)

\* C11: a header is complete exactly when each of the six ranks of the
\* template has a recorded match; a complete header stays complete, and a
\* later add_header_line returns false and leaves the recorded matches, and
\* with them the geometry of header_indexes, as they are.
C11_CompleteIsFinal ==
    /\ [](IsComplete(header.actual)
              <=> \A rank \in 0..5 : header.actual[rank] # <<>>)
    /\ [][IsComplete(header.actual) =>
              /\ IsComplete(header'.actual)
              /\ header'.actual = header.actual
              /\ header'.called = "add_header_line" =>
                     header'.returned = PyFalse
              /\ HeaderIndexes(header'.actual) = HeaderIndexes(header.actual)]_vars

\* A complete header was offered a line that matches a template line at
\* other offsets than the recorded ones, and returned false.
C11_Witness ==
    /\ IsComplete(header.actual)
    /\ header.called = "add_header_line"
    /\ header.returned = PyFalse
    /\ Offer(header.line).is_header
    /\ Offer(header.line).result
           # header.actual[Offer(header.line).headers_index]

\* The geometry get_row took from header_indexes at line 276, when the last
\* call is a get_row in which header_indexes did not raise.
HasGeometry ==
    header.called = "get_row" /\ ~HeaderIndexesRaises(header.actual)

\* C12: the ranges of header_indexes are contiguous, the end of each column
\* being the start of the next, do not overlap, and cover the line from
\* offset 0, the range of the last column being open-ended.
C12_ContiguousRanges ==
    HasGeometry =>
        /\ header.data[0].start = 0
        /\ \A index \in 0..8 :
               header.data[index].end = header.data[index + 1].start
        /\ \A index \in 0..8 : \A next \in (index + 1)..9 :
               header.data[index].end <= header.data[next].start
        /\ header.data[9].end = -1

\* C13: on a complete header, header_indexes raises, or returns a geometry
\* in which every column but the last has 0 <= start < end.
C13_RangesValid ==
    header.called = "get_row" =>
        IF HeaderIndexesRaises(header.actual)
        THEN header.error = "ValueError" /\ header.data = None
        ELSE \A index \in 0..8 :
                 /\ 0 <= header.data[index].start
                 /\ header.data[index].start < header.data[index].end

\* A geometry from header lines without a blank between their fragments, the
\* first template line recorded at the offsets 0, 4, 11, ... and the second
\* one with the first "testing" at offset 0.
C13_Witness ==
    /\ HasGeometry
    /\ header.actual[0][2].start_index = 4
    /\ header.actual[1][1].start_index = 0
    /\ header.data[0].end = 2
    /\ header.data[5].start = 0

\* The last call is a get_row that returned a row.
Returned == header.called = "get_row" /\ header.error = "none"

\* C15: a row that get_row returns has a value under each of the ten column
\* names, and its value of the last column is the line from the start of
\* that column to its end.
C15_FullRow ==
    Returned =>
        /\ DOMAIN header.returned
               = {"artg", "sponsor", "manufacturer", "name", "batch", "wild",
                  "delta", "omicron", "quality", "provided"}
        /\ header.returned["provided"]
               = [i \in 1..(IF header.data[9].start < Len(header.line)
                            THEN Len(header.line) - header.data[9].start
                            ELSE 0) |->
                     header.line[header.data[9].start + i]]

\* A row whose last column has text up to the end of the line, which the
\* slice up to the computed end offset -1 would cut.
C15_Witness ==
    /\ Returned
    /\ header.returned["provided"] # <<>>
    /\ header.returned["provided"]
           # PySlice(header.line, header.data[9].start, header.data[9].end)

\* The fragments of the template line `rank` found in line from offset 0 on,
\* each at or after the end of the one before it: <<>> when one is missing.
FromStart(line, rank) ==
    MatchHeaders(line, PdfHeaderLines[rank + 1], 0, 0, <<>>).result

\* C17: on a header that is not complete, add_header_line(line) returns true
\* exactly when the fragments of some template line occur in line in their
\* order, searched from offset 0; the first such template line is recorded
\* at those offsets, whatever template lines failed before it in the call.
C17_TemplateFromStart ==
    [][(header'.called = "add_header_line" /\ ~IsComplete(header.actual)) =>
          LET matching == {rank \in 0..5 : FromStart(header'.line, rank) # <<>>}
              first == CHOOSE rank \in matching : \A r \in matching : rank <= r
          IN  /\ (header'.returned = PyTrue) <=> (matching # {})
              /\ matching # {} =>
                     header'.actual[first] = FromStart(header'.line, first)]_vars

\* C18: a template line that has a recorded match keeps it: no later call
\* of add_header_line records another line under it or changes its offsets.
C18_RankMatchedOnce ==
    [][\A rank \in 0..5 :
          header.actual[rank] # <<>> =>
              header'.actual[rank] = header.actual[rank]]_vars

\* The start offsets and the end offsets of the recorded fragments of a
\* column, over the six template lines.
StartsOf(column) ==
    UNION {{header.actual[rank][k].start_index :
                k \in {j \in 1..Len(header.actual[rank]) :
                           header.actual[rank][j].item = column}} :
             rank \in 0..5}

EndsOf(column) ==
    UNION {{header.actual[rank][k].end_index :
                k \in {j \in 1..Len(header.actual[rank]) :
                           header.actual[rank][j].item = column}} :
             rank \in 0..5}

MinStart(column) ==
    CHOOSE a \in StartsOf(column) : \A b \in StartsOf(column) : a <= b

MaxEnd(column) ==
    CHOOSE a \in EndsOf(column) : \A b \in EndsOf(column) : b <= a

\* C19: in the geometry of header_indexes a column starts at the lowest
\* start of its fragments, the first column at 0; it ends two before the
\* lowest start of the next column when that column (sponsor, manufacturer,
\* name, provided) is left-aligned, at the highest end of its own fragments
\* when the next column is centered, and the last column ends at -1.
C19_ColumnRange ==
    HasGeometry =>
        \A column \in 0..9 :
            /\ header.data[column].start
                   = IF column = 0 THEN 0 ELSE MinStart(column)
            /\ header.data[column].end
                   = IF column = 9 THEN -1
                     ELSE IF column \in {0, 1, 2, 8}
                          THEN MinStart(column + 1) - 2
                          ELSE MaxEnd(column)

\* A geometry of a column whose fragments are recorded at different offsets,
\* the leftmost not on the first template line and the rightmost end not on
\* the line of the leftmost start; its next column is centered, and the
\* column before a left-aligned one ends past its own fragments.
C19_Witness ==
    /\ HasGeometry
    /\ MinStart(5) < header.actual[0][6].start_index
    /\ MaxEnd(5) > header.actual[0][6].end_index
    /\ header.data[5].start = MinStart(5)
    /\ header.data[5].end = MaxEnd(5)
    /\ header.data[8].end # MaxEnd(8)
    /\ header.data[8].end = MinStart(9) - 2

\* The text get_row slices for a column before it looks to the right of it;
\* the column quality is sliced from three characters before its start.
Sliced(column) ==
    IF column = 8
    THEN PySlice(header.line, header.data[column].start - 3,
                 header.data[column].end)
    ELSE PySlice(header.line, header.data[column].start,
                 header.data[column].end)

\* The k-th pair of characters of the line from the end of a column on.
Chunk(column, k) ==
    PySlice(header.line, header.data[column].end + 2 * k,
            header.data[column].end + 2 * k + 2)

IsBlank(chunk) == \A i \in 1..Len(chunk) : chunk[i] \in WhiteSpace

\* The number of pairs to the right of a column up to the first one that is
\* blank or past the end of the line, when there is such a pair within the
\* length of the line.
RunsTo(column) ==
    {n \in 0..Len(header.line) :
        /\ \A k \in 0..(n - 1) : ~IsBlank(Chunk(column, k))
        /\ IsBlank(Chunk(column, n))}

\* C20: in a row that get_row returns, a column but the last whose sliced
\* text is not empty and does not end in whitespace has that text followed
\* by the pairs of characters from its end offset up to the first pair that
\* is blank or past the end of the line, and by nothing else; for every
\* column, the last with its end offset -1 too, such a pair comes within
\* the length of the line, so that the loop ends.
C20_AbsorbsRun ==
    Returned =>
        /\ \A column \in 0..9 : RunsTo(column) # {}
        /\ \A column \in 0..8 :
               (/\ Sliced(column) # <<>>
                /\ Sliced(column)[Len(Sliced(column))] \notin WhiteSpace) =>
                   \E n \in RunsTo(column) :
                       header.returned[header.data[column].name]
                           = Sliced(column)
                               \o PySlice(header.line, header.data[column].end,
                                          header.data[column].end + 2 * n)

\* A row with a column that took three pairs or more from its right, the
\* last of them cut by the end of the line or followed by a blank pair, on
\* a line whose last column the loop looked to the right of as well.
C20_Witness ==
    /\ Returned
    /\ \E column \in 0..8 :
          /\ Sliced(column) # <<>>
          /\ Sliced(column)[Len(Sliced(column))] \notin WhiteSpace
          /\ \E n \in RunsTo(column) : n >= 3
          /\ Len(header.returned[header.data[column].name])
                 >= Len(Sliced(column)) + 5
    /\ Sliced(9) # <<>>
    /\ Sliced(9)[Len(Sliced(9))] \notin WhiteSpace

(***************************************************************************)
(* Properties of the accumulators of build (specification Spec).           *)
(***************************************************************************)
\* The name cell of a row as _norm_name normalises it: runs of whitespace
\* made one blank, and the blanks at both ends removed.
NormalizedName(item) == Strip(SubSpaces(item.name))

\* The name slots a row finds: none when the row closes the entry before
\* it, which an identifier row after the first row does.
NamesBefore(item) ==
    IF IsIdentifierRow(item) /\ data # <<>> THEN <<>> ELSE current_names

\* C21: a row that build takes starts a name slot, which holds its name,
\* exactly when its normalised name is empty, or there is no name slot yet,
\* or its normalised name starts with the multiple-products marker; the
\* name of any other row is joined with a blank to the last name slot, and
\* the number of name slots stays what it was.
C21_NameSlots ==
    [][(pc = "loop" /\ pc' = "loop" /\ Len(data') = Len(data) + 1) =>
          LET item == data'[Len(data')]
              name == NormalizedName(item)
              before == NamesBefore(item)
          IN  IF \/ name = <<>>
                 \/ before = <<>>
                 \/ StartsWith(name, indicators["multiple-products"])
              THEN current_names' = Append(before, name)
              ELSE /\ Len(current_names') = Len(before)
                   /\ current_names' =
                          [before EXCEPT ![Len(before)] =
                              Strip(@ \o <<" ">> \o name)]]_vars

\* C22: build never fails on a row for want of a batch slot: when it adds
\* the batch and sensitivity cells of a row, the entry has a batch slot,
\* also for a row with an empty batch cell that is the first of the stream
\* or an identifier row that has just closed an entry.
C22_BatchSlotPresent ==
    /\ ~(pc = "error" /\ error = "IndexError")
    /\ (pc = "loop" /\ data # <<>>) => current_batches # <<>>

(***************************************************************************)
(* Properties of the reported batch (specification SpecEval).              *)
(***************************************************************************)
\* The place in the input of the batch that is last when the batches are
\* put in the order of their identifiers, equal identifiers staying in
\* their input order.
ReportedPosition ==
    CHOOSE i \in 1..Len(item_batches) :
        \A j \in 1..Len(item_batches) :
            j # i => \/ StrLess(item_batches[j].batch, item_batches[i].batch)
                     \/ /\ item_batches[j].batch = item_batches[i].batch
                        /\ j < i

\* C24: when a call with more than one batch returns, the batch whose
\* sensitivities it reports, the last in the order of the identifiers, is
\* the last batch of the input, the one the uniformity check left out, and
\* none of the batches that the check looked at.
C24_ReportedIsExcluded ==
    (eval_pc = "returned" /\ Len(item_batches) > 1) =>
        /\ ReportedPosition = Len(item_batches)
        /\ review_result = ReviewResult(item_batches[Len(item_batches)])

(***************************************************************************)
(* Properties of ProductInfo.set_prop (specification SpecProp).            *)
(***************************************************************************)
\* C23: a call of set_prop with the name of a field sets the field when it
\* is None, and then changes nothing else; it changes nothing when the
\* field holds the value given; on any other value it leaves every field
\* as it is and adds the value to the mismatch errors of the key, and does
\* nothing else.  A call with "errors" or with a key that is no field
\* raises ValueError and leaves the fields and the errors as they are.
C23_FirstWriterWins ==
    [][product'.called = "set_prop" =>
          LET key == product'.key
              value == product'.value
          IN  IF key \notin DOMAIN product.fields
              THEN /\ product'.error = "ValueError"
                   /\ product'.fields = product.fields
                   /\ product'.errors = product.errors
              ELSE /\ product'.error = "none"
                   /\ IF product.fields[key] = None
                      THEN /\ product'.fields =
                                  [product.fields EXCEPT ![key] = value]
                           /\ product'.errors = product.errors
                      ELSE /\ product'.fields = product.fields
                           /\ product'.errors =
                                  IF product.fields[key] = value
                                  THEN product.errors
                                  ELSE product.errors
                                           \cup {<<key, "mismatch", value>>}]_vars

====
